---------------------------- MODULE Spec2Model ----------------------------
(***************************************************************************)
(* Model of the OO layout planner (src/app.py): the Python layout loader   *)
(* (_normalise_layout_payload) and the browser component embedded in       *)
(* _designer (placements, endpoint geometry, connectivity, snap solver,    *)
(* section transforms, board rotation, pointer and button handlers).       *)
(*                                                                         *)
(* Numbers.  The component computes in IEEE doubles; the model computes in *)
(* fixed point:                                                            *)
(*   - lengths and coordinates are integers in units of 0.1 mm;            *)
(*   - angles (degrees and radians alike) are integers in units of half a  *)
(*     degree, so 360 degrees = 2*pi = 720 units;                          *)
(*   - Math.sin / Math.cos are a table of sines scaled by TrigScale, and a *)
(*     product with a sine or cosine is rounded to the nearest unit.       *)
(* Rotations by multiples of 90 degrees are exact in the model; in doubles *)
(* they are exact up to about 1e-13 mm.                                    *)
(* The comparisons of findBestSnapTransform use a tolerance of 1e-6; on    *)
(* the grid of 0.1 mm they are comparisons of squared distances, and       *)
(* SpecSolve follows them on values a quarter of 1e-6 apart.               *)
(***************************************************************************)
EXTENDS Integers, Sequences, FiniteSets, TLC

VARIABLES
    placements,              \* let placements (src/app.py:599): sequence of records
    nextId,                  \* let nextId (607)
    selectedId,              \* let selectedId (608), NoId for null
    sectionMode,             \* let sectionMode (691)
    activeSectionIds,        \* let activeSectionIds (692): NoSet for null, else a set of ids
    sectionInitialPositions, \* const sectionInitialPositions (693): set of <<id, x, y>>
    dragging,                \* let dragging (1405)
    dragOffset,              \* let dragOffset (1406)
    polygon,                 \* let polygon (631): sequence of <<x, y>>
    boardCenter,             \* let boardCenter (638)
    boardOrientation,        \* let boardOrientation (610)
    guideCircles,            \* let guideCircles (727): sequence of records
    selectedCircleId,        \* let selectedCircleId (729), NoId for null
    draggingCircleId,        \* let draggingCircleId (730), NoId for null
    circleDragOffset,        \* let circleDragOffset (731)
    circleCounter,           \* let circleCounter (728)
    viewPanning,             \* let viewPanning (1407)
    hostPolygon,             \* board.polygon_points() as the host sends it (228-232, 1818)
    uploaded,                \* the file held by st.sidebar.file_uploader (1889), parsed
    session,                 \* st.session_state: placements, circles, board_orientation (1877-1887)
    emitted,                 \* the component value last handed to the host (1217)
    lastOp,                  \* the handler that ran last, with its inputs (history)
    pre,                     \* placements, polygon, circles, orientation before that handler (history)
    ops,                     \* number of handler events so far (history)
    start,                   \* the component's state after construction (history)
    trail,                   \* the handlers run so far, in order, with their rotations (history)
    budget,                  \* the number of handler events a behaviour may hold
    validCandidates,         \* the valid candidates of one findBestSnapTransform call, in loop order (1109-1136)
    compared,                \* how many of them the loops have compared with best
    bestSoFar,               \* let best (1108), found FALSE for null
    pending,                 \* const queue of one connectedSectionIds call (1059)
    seen                     \* const visited of that call (1058), in insertion order

vars == <<placements, nextId, selectedId, sectionMode, activeSectionIds,
          sectionInitialPositions, dragging, dragOffset, polygon, boardCenter,
          boardOrientation, guideCircles, selectedCircleId, draggingCircleId,
          circleDragOffset, circleCounter, viewPanning, hostPolygon, uploaded,
          session, emitted, lastOp, pre, ops, start, trail, budget,
          validCandidates, compared, bestSoFar, pending, seen>>

-----------------------------------------------------------------------------
(* Arithmetic of the fixed-point model                                      *)

\* Denominator of the sine table: Math.sin(a) is SinTable entry / TrigScale.
TrigScale == 10000

\* Math.PI in half-degree units.
Pi == 360

\* One degree in angle units (an angle of d degrees is d * DegreeUnit).
DegreeUnit == 2

\* One millimetre in length units.
Mm == 10

Abs(v) == IF v < 0 THEN -v ELSE v

\* JavaScript's % : the remainder takes the sign of the dividend.
JsMod(a, m) == IF a >= 0 THEN a % m ELSE -((-a) % m)

\* Math.floor(n / d) for d > 0, in the place of Math.round.
JsFloor(n, d) == n \div d

\* Math.round(n / d) for d > 0: the nearest integer, halves rounded up.
JsRound(n, d) == (2 * n + d) \div (2 * d)

\* sin of 0, 0.5, 1, ..., 90 degrees, times TrigScale (index 1 is 0 degrees).
SinTable ==
   << 0, 87, 175, 262, 349, 436, 523, 610, 698, 785,
      872, 958, 1045, 1132, 1219, 1305, 1392, 1478, 1564, 1650,
      1736, 1822, 1908, 1994, 2079, 2164, 2250, 2334, 2419, 2504,
      2588, 2672, 2756, 2840, 2924, 3007, 3090, 3173, 3256, 3338,
      3420, 3502, 3584, 3665, 3746, 3827, 3907, 3987, 4067, 4147,
      4226, 4305, 4384, 4462, 4540, 4617, 4695, 4772, 4848, 4924,
      5000, 5075, 5150, 5225, 5299, 5373, 5446, 5519, 5592, 5664,
      5736, 5807, 5878, 5948, 6018, 6088, 6157, 6225, 6293, 6361,
      6428, 6494, 6561, 6626, 6691, 6756, 6820, 6884, 6947, 7009,
      7071, 7133, 7193, 7254, 7314, 7373, 7431, 7490, 7547, 7604,
      7660, 7716, 7771, 7826, 7880, 7934, 7986, 8039, 8090, 8141,
      8192, 8241, 8290, 8339, 8387, 8434, 8480, 8526, 8572, 8616,
      8660, 8704, 8746, 8788, 8829, 8870, 8910, 8949, 8988, 9026,
      9063, 9100, 9135, 9171, 9205, 9239, 9272, 9304, 9336, 9367,
      9397, 9426, 9455, 9483, 9511, 9537, 9563, 9588, 9613, 9636,
      9659, 9681, 9703, 9724, 9744, 9763, 9781, 9799, 9816, 9833,
      9848, 9863, 9877, 9890, 9903, 9914, 9925, 9936, 9945, 9954,
      9962, 9969, 9976, 9981, 9986, 9990, 9994, 9997, 9998, 10000,
      10000 >>

\* Math.sin(a) * TrigScale for any angle a (in half degrees).
Sin(a) ==
    LET r == a % (2 * Pi)
    IN  IF r <= Pi \div 2 THEN SinTable[r + 1]
        ELSE IF r <= Pi THEN SinTable[Pi - r + 1]
        ELSE IF r <= Pi + Pi \div 2 THEN -SinTable[r - Pi + 1]
        ELSE -SinTable[2 * Pi - r + 1]

\* Math.cos(a) * TrigScale.
Cos(a) == Sin(a + Pi \div 2)

\* v * t / TrigScale rounded to the nearest unit (t a scaled sine or cosine sum).
Scaled(n) == JsRound(n, TrigScale)

\* Math.atan2(y, x) in half degrees, in (-Pi, Pi]: bisection inside the
\* quadrant of (x, y) on the sign of the cross product of (x, y) with the
\* direction of the candidate angle, then the nearer of the two neighbours.
RECURSIVE AtanBisect(_, _, _, _)
AtanBisect(x, y, lo, hi) ==
    IF hi - lo <= 1
    THEN LET cl == Abs(x * Sin(lo) - y * Cos(lo))
             ch == Abs(x * Sin(hi) - y * Cos(hi))
         IN  IF ch < cl THEN hi ELSE lo
    ELSE LET mid == (lo + hi) \div 2
         IN  IF x * Sin(mid) - y * Cos(mid) > 0
             THEN AtanBisect(x, y, lo, mid)
             ELSE AtanBisect(x, y, mid, hi)

Atan2(y, x) ==
    IF x = 0 /\ y = 0 THEN 0
    ELSE IF x > 0 /\ y >= 0 THEN AtanBisect(x, y, 0, Pi \div 2)
    ELSE IF x <= 0 /\ y > 0 THEN AtanBisect(x, y, Pi \div 2, Pi)
    ELSE IF x < 0 /\ y = 0 THEN Pi
    ELSE IF x < 0 THEN AtanBisect(x, y, -Pi, -(Pi \div 2))
    ELSE AtanBisect(x, y, -(Pi \div 2), 0)

\* toRadians(degrees) (744-746): both are counted in half degrees.
toRadians(degrees) == degrees

\* toDegrees(radians) (748-750).
toDegrees(radians) == radians

\* normalizeRadians(angle) (752-763): into (-Pi, Pi].
normalizeRadians(angle) ==
    LET twoPi == Pi * 2
        v0 == JsMod(angle, twoPi)
        v1 == IF v0 <= -Pi THEN v0 + twoPi ELSE v0
    IN  IF v1 > Pi THEN v1 - twoPi ELSE v1

\* normalizeDegrees(angle) (765-775): into (-180, 180] degrees.
normalizeDegrees(angle) ==
    LET full == 360 * DegreeUnit
        half == 180 * DegreeUnit
        v0 == JsMod(angle, full)
        v1 == IF v0 <= -half THEN v0 + full ELSE v0
    IN  IF v1 > half THEN v1 - full ELSE v1

\* rotatePoint(x, y, angle) (777-784).
rotatePoint(x, y, angle) ==
    LET cos == Cos(angle)
        sin == Sin(angle)
    IN  [x |-> Scaled(x * cos - y * sin),
         y |-> Scaled(x * sin + y * cos)]

\* Math.hypot(dx, dy) > limit, decided on squares (no square root is taken).
HypotExceeds(dx, dy, limit) ==
    \/ Abs(dx) > limit
    \/ Abs(dy) > limit
    \/ dx * dx + dy * dy > limit * limit

\* Math.hypot(dx, dy) < limit, decided on squares.
HypotBelow(dx, dy, limit) ==
    /\ Abs(dx) < limit
    /\ Abs(dy) < limit
    /\ dx * dx + dy * dy < limit * limit

-----------------------------------------------------------------------------
(* The catalogue (src/planner.py) as the host hands it to the component     *)

\* null / undefined of the component, for ids.
NoId == "null"

\* TRACK_LIBRARY (src/planner.py:28-41) through track_payload (src/app.py:233-244):
\* the standard straight and the 1st radius 45 degree curve.
\* Lengths and radii in 0.1 mm, angles in half degrees; 0 stands for None.
trackLibrary ==
    << [code |-> "R600", kind |-> "straight", length |-> 168 * Mm,
        angle |-> 0, radius |-> 0, displayLength |-> 168 * Mm],
       [code |-> "R606", kind |-> "curve", length |-> 0,
        angle |-> 45 * DegreeUnit, radius |-> 371 * Mm, displayLength |-> 2914] >>

LibraryCodes == {trackLibrary[i].code : i \in DOMAIN trackLibrary}

\* libraryByCode[code] (598); defined for codes in LibraryCodes only.
libraryByCode(code) ==
    trackLibrary[CHOOSE i \in DOMAIN trackLibrary : trackLibrary[i].code = code]

-----------------------------------------------------------------------------
(* GeometryEngine, ConnectivityPredicate, ConnectivityGraph                 *)

\* endpointGeometry, curve branch (976-1004).
CurveEndpoints(placement, piece) ==
    LET rotation == toRadians(placement.rotation)
        orientation == IF placement.flipped THEN -1 ELSE 1
        halfTheta == toRadians(piece.angle) \div 2
        baseAngles == <<halfTheta, -halfTheta>>
        Endpoint(baseAngle) ==
            LET angleLocal == baseAngle * orientation
                localPosition == [x |-> Scaled(piece.radius * Cos(angleLocal)),
                                  y |-> Scaled(piece.radius * Sin(angleLocal))]
                rotated == rotatePoint(localPosition.x, localPosition.y, rotation)
                tangentVector == [x |-> -Sin(angleLocal) * orientation,
                                  y |-> Cos(angleLocal) * orientation]
                tangentLocalAngle == Atan2(tangentVector.y, tangentVector.x)
                radialLocalAngle == Atan2(localPosition.y, localPosition.x)
            IN  [x |-> placement.x + rotated.x,
                 y |-> placement.y + rotated.y,
                 tangent |-> normalizeRadians(tangentLocalAngle + rotation),
                 radial |-> normalizeRadians(radialLocalAngle + rotation),
                 localPosition |-> localPosition,
                 localTangent |-> tangentLocalAngle]
    IN  [i \in 1..2 |-> Endpoint(baseAngles[i])]

\* A variant of the non-curve branch that turns the positions of the
\* endpoints with the placement but leaves their tangents and radials as the
\* piece has them at rotation 0.
StraightEndpointsUnturned(placement, piece) ==
    LET rotation == toRadians(placement.rotation)
        halfLength == (IF piece.displayLength # 0 THEN piece.displayLength
                       ELSE piece.length) \div 2
        Endpoint(x, localTangent) ==
            [x |-> placement.x + rotatePoint(x, 0, rotation).x,
             y |-> placement.y + rotatePoint(x, 0, rotation).y,
             tangent |-> normalizeRadians(localTangent),
             radial |-> normalizeRadians(localTangent),
             localPosition |-> [x |-> x, y |-> 0],
             localTangent |-> localTangent]
    IN  << Endpoint(halfLength, 0), Endpoint(-halfLength, Pi) >>

\* endpointGeometry, non-curve branch (1006-1031).
StraightEndpoints(placement, piece) ==
    LET rotation == toRadians(placement.rotation)
        displayLength == IF piece.displayLength # 0 THEN piece.displayLength
                         ELSE piece.length
        halfLength == displayLength \div 2
        endpoints == << [localPosition |-> [x |-> halfLength, y |-> 0],
                         localTangent |-> 0],
                        [localPosition |-> [x |-> -halfLength, y |-> 0],
                         localTangent |-> Pi] >>
        Endpoint(endpoint) ==
            LET rotated == rotatePoint(endpoint.localPosition.x,
                                       endpoint.localPosition.y, rotation)
                \* Math.atan2(0, -0) is pi: the second end of a zero-length piece
                radialLocalAngle ==
                    IF endpoint.localPosition.x = 0 /\ endpoint.localTangent = Pi
                    THEN Pi
                    ELSE Atan2(endpoint.localPosition.y, endpoint.localPosition.x)
            IN  [x |-> placement.x + rotated.x,
                 y |-> placement.y + rotated.y,
                 tangent |-> normalizeRadians(endpoint.localTangent + rotation),
                 radial |-> normalizeRadians(radialLocalAngle + rotation),
                 localPosition |-> endpoint.localPosition,
                 localTangent |-> endpoint.localTangent]
    IN  [i \in 1..2 |-> Endpoint(endpoints[i])]

\* A variant of endpointGeometry that lays an unknown code out as the
\* catalogue's first piece instead of returning no endpoint.
endpointGeometryLenient(placement) ==
    IF placement.code \notin LibraryCodes
    THEN StraightEndpoints(placement, trackLibrary[1])
    ELSE IF libraryByCode(placement.code).kind = "curve"
         THEN CurveEndpoints(placement, libraryByCode(placement.code))
         ELSE StraightEndpoints(placement, libraryByCode(placement.code))

\* endpointGeometry after the lookup of the catalogue entry (973-1031); a
\* missing (null) radius or angle is falsy as 0 is.
PieceEndpoints(placement, piece) ==
    IF piece.kind = "curve" /\ piece.radius # 0 /\ piece.angle # 0
    THEN CurveEndpoints(placement, piece)
    ELSE StraightEndpoints(placement, piece)

\* endpointGeometry(placement) (970-1032): the sequence of endpoints.
endpointGeometry(placement) ==
    IF placement.code \notin LibraryCodes THEN << >>
    ELSE PieceEndpoints(placement, libraryByCode(placement.code))

SNAP_DISTANCE_MM == 2000
CONNECTION_TOLERANCE_MM == 30
ANGLE_TOLERANCE_RAD == 10

\* A variant of endpointsAreConnected that tests the positions only.
endpointsAreConnectedByPosition(endpointA, endpointB) ==
    ~HypotExceeds(endpointA.x - endpointB.x, endpointA.y - endpointB.y,
                  CONNECTION_TOLERANCE_MM)

\* A variant of endpointsAreConnected that joins an endpoint only to one whose
\* tangent angle is not below its own.
endpointsAreConnectedAscending(endpointA, endpointB) ==
    /\ endpointA.tangent <= endpointB.tangent
    /\ ~HypotExceeds(endpointA.x - endpointB.x, endpointA.y - endpointB.y,
                     CONNECTION_TOLERANCE_MM)
    /\ \/ Abs(Abs(normalizeRadians(endpointA.tangent - endpointB.tangent)) - Pi)
             < ANGLE_TOLERANCE_RAD
       \/ Abs(normalizeRadians(endpointA.radial - endpointB.radial))
             < ANGLE_TOLERANCE_RAD

\* endpointsAreConnected(endpointA, endpointB) (1038-1055).
endpointsAreConnected(endpointA, endpointB) ==
    LET dx == endpointA.x - endpointB.x
        dy == endpointA.y - endpointB.y
    IN  IF HypotExceeds(dx, dy, CONNECTION_TOLERANCE_MM) THEN FALSE
        ELSE LET tangentDiff == Abs(normalizeRadians(endpointA.tangent - endpointB.tangent))
                 radialDiff == Abs(normalizeRadians(endpointA.radial - endpointB.radial))
                 tangentsOpposed == Abs(tangentDiff - Pi) < ANGLE_TOLERANCE_RAD
                 radialsAligned == radialDiff < ANGLE_TOLERANCE_RAD
             IN  tangentsOpposed \/ radialsAligned

\* Index of the first placement of list with this id, 0 if there is none.
IndexOfId(list, id) ==
    IF \E i \in DOMAIN list : list[i].id = id
    THEN CHOOSE i \in DOMAIN list :
            /\ list[i].id = id
            /\ \A j \in 1..(i - 1) : list[j].id # id
    ELSE 0

\* The inner loops of connectedSectionIds (1072-1079): some endpoint pair joins.
AnyEndpointsConnected(endpoints, otherEndpoints) ==
    \E i \in DOMAIN endpoints : \E j \in DOMAIN otherEndpoints :
        endpointsAreConnected(endpoints[i], otherEndpoints[j])

\* placements.forEach(other => ...) of connectedSectionIds (1069-1080): the ids
\* pushed on the queue while currentId is processed, in collection order.
RECURSIVE PushedIds(_, _, _, _, _)
PushedIds(list, k, currentId, visited, endpoints) ==
    IF k > Len(list) THEN << >>
    ELSE LET other == list[k]
             rest == PushedIds(list, k + 1, currentId, visited, endpoints)
         IN  IF other.id = currentId \/ other.id \in visited THEN rest
             ELSE IF AnyEndpointsConnected(endpoints, endpointGeometry(other))
                  THEN <<other.id>> \o rest
                  ELSE rest

\* A test that lets an id pass again that the loop has visited already.
SkipsIdOnlyNull(currentId, visitedIds) == currentId = NoId \/ currentId = ""

\* !currentId || visited.has(currentId) (1062).
SkipsId(currentId, visitedIds) ==
    currentId = NoId \/ currentId = "" \/ currentId \in visitedIds

\* The while loop of connectedSectionIds (1060-1081); visitedSeq is the Set
\* visited in insertion order.
RECURSIVE SectionLoop(_, _, _)
SectionLoop(list, visitedSeq, queue) ==
    IF queue = << >> THEN visitedSeq
    ELSE LET currentId == Head(queue)
             visited == {visitedSeq[i] : i \in DOMAIN visitedSeq}
         IN  IF SkipsId(currentId, visited)
             THEN SectionLoop(list, visitedSeq, Tail(queue))
             ELSE LET idx == IndexOfId(list, currentId)
                      visited2 == visited \cup {currentId}
                  IN  IF idx = 0
                      THEN SectionLoop(list, Append(visitedSeq, currentId), Tail(queue))
                      ELSE SectionLoop(list, Append(visitedSeq, currentId),
                               Tail(queue) \o PushedIds(list, 1, currentId, visited2,
                                                        endpointGeometry(list[idx])))

\* A variant of connectedSectionIds that stops at the direct neighbours of
\* the origin.
connectedSectionIdsDirect(list, originId) ==
    IF IndexOfId(list, originId) = 0 THEN <<originId>>
    ELSE <<originId>> \o PushedIds(list, 1, originId, {originId},
                                   endpointGeometry(list[IndexOfId(list, originId)]))

\* connectedSectionIds(originId) (1057-1083) on the collection list.
connectedSectionIds(list, originId) == SectionLoop(list, << >>, <<originId>>)

-----------------------------------------------------------------------------
(* TransformApplier and SnapSolver                                          *)

\* (value + 360) % 360 of rotation sums, in degrees (1099, 1125, 1175).
WrapRotation(value) == JsMod(value + 360 * DegreeUnit, 360 * DegreeUnit)

\* A variant of TransformPiece that translates first and turns the translated
\* position.
TransformPieceShiftFirst(piece, pivotPoint, deltaRotationDeg, deltaX, deltaY) ==
    IF deltaRotationDeg # 0
    THEN [piece EXCEPT
             !.x = pivotPoint.x + rotatePoint(piece.x + deltaX - pivotPoint.x,
                                              piece.y + deltaY - pivotPoint.y,
                                              toRadians(deltaRotationDeg)).x,
             !.y = pivotPoint.y + rotatePoint(piece.x + deltaX - pivotPoint.x,
                                              piece.y + deltaY - pivotPoint.y,
                                              toRadians(deltaRotationDeg)).y,
             !.rotation = WrapRotation(piece.rotation + deltaRotationDeg)]
    ELSE [piece EXCEPT !.x = piece.x + deltaX, !.y = piece.y + deltaY]

\* A variant of TransformPiece that turns each piece about its own centre.
TransformPieceInPlace(piece, pivotPoint, deltaRotationDeg, deltaX, deltaY) ==
    [piece EXCEPT
        !.x = piece.x + deltaX,
        !.y = piece.y + deltaY,
        !.rotation = IF deltaRotationDeg # 0
                     THEN WrapRotation(piece.rotation + deltaRotationDeg)
                     ELSE piece.rotation]

\* The body of sectionIds.forEach in applySectionTransform (1090-1102) for one piece.
TransformPiece(piece, pivotPoint, deltaRotationDeg, deltaX, deltaY) ==
    LET rotationRad == toRadians(deltaRotationDeg)
        cos == Cos(rotationRad)
        sin == Sin(rotationRad)
        relX == piece.x - pivotPoint.x
        relY == piece.y - pivotPoint.y
        rotatedX == Scaled(relX * cos - relY * sin)
        rotatedY == Scaled(relX * sin + relY * cos)
        turned == IF deltaRotationDeg # 0
                  THEN [piece EXCEPT !.x = pivotPoint.x + rotatedX,
                                     !.y = pivotPoint.y + rotatedY,
                                     !.rotation = WrapRotation(piece.rotation + deltaRotationDeg)]
                  ELSE piece
    IN  [turned EXCEPT !.x = turned.x + deltaX, !.y = turned.y + deltaY]

\* applySectionTransform(sectionIds, pivotPoint, deltaRotationDeg, deltaX, deltaY)
\* (1085-1104) on the collection list: the ids are taken in order, each one
\* updating the first placement that carries it (getPlacementById, 786-788).
RECURSIVE applySectionTransform(_, _, _, _, _, _)
applySectionTransform(list, sectionIds, pivotPoint, deltaRotationDeg, deltaX, deltaY) ==
    IF sectionIds = << >> THEN list
    ELSE LET idx == IndexOfId(list, Head(sectionIds))
             next == IF idx = 0 THEN list
                     ELSE [list EXCEPT ![idx] =
                              TransformPiece(list[idx], pivotPoint,
                                             deltaRotationDeg, deltaX, deltaY)]
         IN  applySectionTransform(next, Tail(sectionIds), pivotPoint,
                                   deltaRotationDeg, deltaX, deltaY)

\* The result of findBestSnapTransform when best stays null.
NoTransform ==
    [found |-> FALSE, distanceSq |-> 0, deltaRotationDeg |-> 0,
     deltaX |-> 0, deltaY |-> 0, rotationMagnitude |-> 0]

\* A variant of snapCenter that does not turn the endpoint's local position.
snapCenterUnturned(target, localPosition, newRotationRad) ==
    [x |-> target.x - localPosition.x, y |-> target.y - localPosition.y]

\* newCenterX, newCenterY (1127-1129): where the centre of the piece must be
\* for its endpoint at localPosition, turned by newRotationRad, to lie on target.
snapCenter(target, localPosition, newRotationRad) ==
    [x |-> target.x - rotatePoint(localPosition.x, localPosition.y, newRotationRad).x,
     y |-> target.y - rotatePoint(localPosition.x, localPosition.y, newRotationRad).y]

\* The body of candidateTangents.forEach (1122-1153) up to the test of best:
\* the candidate for one endpoint, one target and one desired tangent;
\* found is FALSE when the candidate is rejected (1136).  distance is kept
\* squared: on the 0.1 mm grid two distances within SNAP_DISTANCE_MM differ by
\* less than 1e-6 exactly when their squares are equal.
SnapCandidate(placement, endpoint, target, desiredTangent) ==
    LET dx == endpoint.x - target.x
        dy == endpoint.y - target.y
        deltaRotationRad == normalizeRadians(desiredTangent - endpoint.tangent)
        deltaRotationDeg == normalizeDegrees(toDegrees(deltaRotationRad))
        newRotationDeg == WrapRotation(placement.rotation + deltaRotationDeg)
        newRotationRad == toRadians(newRotationDeg)
        rotatedLocal == rotatePoint(endpoint.localPosition.x,
                                    endpoint.localPosition.y, newRotationRad)
        newCenter == snapCenter(target, endpoint.localPosition, newRotationRad)
        transformedEndpoint ==
            [x |-> target.x,
             y |-> target.y,
             tangent |-> normalizeRadians(endpoint.localTangent + newRotationRad),
             radial |-> normalizeRadians(Atan2(rotatedLocal.y, rotatedLocal.x))]
    IN  IF ~endpointsAreConnected(transformedEndpoint, target) THEN NoTransform
        ELSE [found |-> TRUE,
              distanceSq |-> dx * dx + dy * dy,
              deltaRotationDeg |-> deltaRotationDeg,
              deltaX |-> newCenter.x - placement.x,
              deltaY |-> newCenter.y - placement.y,
              rotationMagnitude |-> Abs(deltaRotationDeg)]

\* A variant of the loops that tries every target, however far it is.
CandidatesOfAnyDistance(placement, endpoints, otherEndpoints) ==
    LET nE == Len(endpoints)
        nT == Len(otherEndpoints)
        At(k) ==
            LET endpoint == endpoints[((k - 1) \div (2 * nT)) + 1]
                target == otherEndpoints[(((k - 1) \div 2) % nT) + 1]
                candidateTangents == << normalizeRadians(target.tangent + Pi),
                                        normalizeRadians(target.tangent) >>
            IN  SnapCandidate(placement, endpoint, target,
                              candidateTangents[((k - 1) % 2) + 1])
    IN  [k \in 1..(2 * nE * nT) |-> At(k)]

\* The candidates of one other placement in the order the nested forEach
\* loops visit them (1112-1122): endpoint, then target, then desired tangent.
\* A target farther than SNAP_DISTANCE_MM gives no candidate (1117).
CandidatesOf(placement, endpoints, otherEndpoints) ==
    LET nE == Len(endpoints)
        nT == Len(otherEndpoints)
        At(k) ==
            LET endpoint == endpoints[((k - 1) \div (2 * nT)) + 1]
                target == otherEndpoints[(((k - 1) \div 2) % nT) + 1]
                candidateTangents == << normalizeRadians(target.tangent + Pi),
                                        normalizeRadians(target.tangent) >>
            IN  IF HypotExceeds(endpoint.x - target.x, endpoint.y - target.y,
                                SNAP_DISTANCE_MM)
                THEN NoTransform
                ELSE SnapCandidate(placement, endpoint, target,
                                   candidateTangents[((k - 1) % 2) + 1])
    IN  [k \in 1..(2 * nE * nT) |-> At(k)]

\* The test that replaces best (1140-1144).
ReplacesBest(best, cand) ==
    \/ ~best.found
    \/ cand.distanceSq < best.distanceSq
    \/ /\ cand.distanceSq = best.distanceSq
       /\ cand.rotationMagnitude < best.rotationMagnitude

\* One candidate after another against best (1136-1152).
RECURSIVE FoldBest(_, _, _)
FoldBest(cands, k, best) ==
    IF k > Len(cands) THEN best
    ELSE FoldBest(cands, k + 1,
                  IF cands[k].found /\ ReplacesBest(best, cands[k])
                  THEN cands[k] ELSE best)

\* placements.forEach(other => ...) of findBestSnapTransform (1109-1156).
RECURSIVE SnapLoop(_, _, _, _, _)
SnapLoop(list, k, placement, endpoints, best) ==
    IF k > Len(list) THEN best
    ELSE IF list[k].id = placement.id
         THEN SnapLoop(list, k + 1, placement, endpoints, best)
         ELSE SnapLoop(list, k + 1, placement, endpoints,
                       FoldBest(CandidatesOf(placement, endpoints,
                                             endpointGeometry(list[k])), 1, best))

\* findBestSnapTransform(placement) (1106-1161) on the collection list;
\* rotationMagnitude is deleted from the result (1158).
WithoutMagnitude(best) ==
    [found |-> best.found, distanceSq |-> best.distanceSq,
     deltaRotationDeg |-> best.deltaRotationDeg,
     deltaX |-> best.deltaX, deltaY |-> best.deltaY]

findBestSnapTransform(list, placement) ==
    WithoutMagnitude(SnapLoop(list, 1, placement, endpointGeometry(placement),
                              NoTransform))

-----------------------------------------------------------------------------
(* JSON values of an uploaded layout and the Python loader                  *)

\* A JSON value: t is "num", "str", "bool" or "none" (absent or null).  A
\* number n is held in the units of its field (0.1 mm, half degrees).
JNum(n) == [t |-> "num", n |-> n, s |-> "", b |-> FALSE]
JStr(s) == [t |-> "str", n |-> 0, s |-> s, b |-> FALSE]
JBool(b) == [t |-> "bool", n |-> 0, s |-> "", b |-> b]
JNone == [t |-> "none", n |-> 0, s |-> "", b |-> FALSE]
\* An integer literal beyond the range of a double (json.loads keeps it exact).
JBig == [t |-> "big", n |-> 0, s |-> "", b |-> FALSE]
\* A JSON array as the value of a field; b tells whether it has elements.
JList(nonEmpty) == [t |-> "list", n |-> 0, s |-> "", b |-> nonEmpty]

\* A dict element of the placements list, and an element that is no dict.
RawDict(id, code, x, y, rotation, flipped) ==
    [isDict |-> TRUE, id |-> id, code |-> code, x |-> x, y |-> y,
     rotation |-> rotation, flipped |-> flipped]
RawOther == [isDict |-> FALSE, id |-> JNone, code |-> JNone, x |-> JNone,
             y |-> JNone, rotation |-> JNone, flipped |-> JNone]

\* 'placement-' + n (600, 1255, 1310) and f"placement-{idx}" (81).
PlacementIdNames ==
    << "placement-0", "placement-1", "placement-2", "placement-3",
       "placement-4", "placement-5", "placement-6", "placement-7",
       "placement-8", "placement-9" >>
PlacementIdName(n) == PlacementIdNames[n + 1]

\* 'circle-' + n (717, 1366).
CircleIdNames == << "circle-0", "circle-1", "circle-2", "circle-3", "circle-4",
                    "circle-5", "circle-6", "circle-7", "circle-8", "circle-9" >>
CircleIdName(n) == CircleIdNames[n + 1]

\* float(value) of the string literals that occur in the model's payloads:
\* the text of a number parses, any other text raises ValueError (63-67).
FloatOfString == [s \in {"45", "90"} |-> IF s = "45" THEN 45 ELSE 90]

\* _to_float(value, default) (60-68); unit turns a parsed number into the
\* field's units.  A Python bool is an int (61-62).
ToFloat(value, default, unit) ==
    IF value.t = "num" THEN value.n
    ELSE IF value.t = "bool" THEN (IF value.b THEN unit ELSE 0)
    ELSE IF value.t = "str"
         THEN IF value.s \in DOMAIN FloatOfString
              THEN FloatOfString[value.s] * unit ELSE default
         ELSE default

\* float(value) of an int too large for a double raises OverflowError (62).
FloatOverflows(value) == value.t = "big"

\* bool(raw_item.get("flipped", False)) (86): Python truthiness.
Truthy(value) ==
    IF value.t = "bool" THEN value.b
    ELSE IF value.t = "num" THEN value.n # 0
    ELSE IF value.t = "str" THEN value.s # ""
    ELSE IF value.t = "list" THEN value.b
    ELSE IF value.t = "big" THEN TRUE
    ELSE FALSE

\* A loop that looks at the type of the element only.
KeptAnyDict(raw_item) == raw_item.isDict

\* The element reaches the appends of the loop (74-78): a dict with a
\* non-empty string for code.
Kept(raw_item) ==
    raw_item.isDict /\ raw_item.code.t = "str" /\ raw_item.code.s # ""

\* Some _to_float call of the loop (83-85) raises OverflowError.
ItemsOverflow(items) ==
    \E k \in DOMAIN items :
        /\ Kept(items[k])
        /\ \/ FloatOverflows(items[k].x)
           \/ FloatOverflows(items[k].y)
           \/ FloatOverflows(items[k].rotation)

\* The loop of _normalise_layout_payload (72-97) from element k on.
RECURSIVE NormaliseItems(_, _)
NormaliseItems(items, k) ==
    IF k > Len(items) THEN << >>
    ELSE LET raw_item == items[k]
             idx == k - 1
             rest == NormaliseItems(items, k + 1)
         IN  IF ~Kept(raw_item) THEN rest
             ELSE LET placement_id ==
                          IF raw_item.id.t # "str" \/ raw_item.id.s = ""
                          THEN PlacementIdName(idx) ELSE raw_item.id.s
                  IN  << [id |-> placement_id,
                          code |-> raw_item.code.s,
                          x |-> ToFloat(raw_item.x, 0, Mm),
                          y |-> ToFloat(raw_item.y, 0, Mm),
                          rotation |-> ToFloat(raw_item.rotation, 0, DegreeUnit),
                          flipped |-> Truthy(raw_item.flipped)] >> \o rest

\* The circles loop of _normalise_layout_payload (102-127); circles are held
\* as typed records [id, radius, x, y], so only the radius test is left.
RECURSIVE NormaliseCircles(_, _)
NormaliseCircles(circles, k) ==
    IF k > Len(circles) THEN << >>
    ELSE IF circles[k].radius <= 0 THEN NormaliseCircles(circles, k + 1)
         ELSE <<circles[k]>> \o NormaliseCircles(circles, k + 1)

\* The result of _normalise_layout_payload when it raises error.
Raised(error) ==
    [raised |-> TRUE, error |-> error, placements |-> << >>, circles |-> << >>]

\* _normalise_layout_payload(data) (40-129): raised is TRUE when an exception
\* leaves the function, error names it.
NormaliseLayoutPayload(data) ==
    LET normalised == NormaliseItems(data.items, 1)
        saw_item == Len(data.items) > 0
    IN  IF ~data.isList THEN Raised("ValueError")
        ELSE IF ItemsOverflow(data.items) THEN Raised("OverflowError")
        ELSE IF saw_item /\ normalised = << >> THEN Raised("ValueError")
        ELSE [raised |-> FALSE, error |-> "", placements |-> normalised,
              circles |-> NormaliseCircles(data.circles, 1)]

\* The exception of the upload branch that no except clause catches
\* (1891-1897 catch UnicodeDecodeError, JSONDecodeError and ValueError).
ScriptDies(file) ==
    file.present /\ NormaliseLayoutPayload(file).error = "OverflowError"

\* The upload branch of the script (1889-1910): session state after it.
AfterUpload(sess, file) ==
    IF ~file.present THEN sess
    ELSE LET loaded == NormaliseLayoutPayload(file)
         IN  IF loaded.raised THEN sess
             ELSE [placements |-> loaded.placements,
                   circles |-> loaded.circles,
                   board_orientation |->
                       IF file.hasOrientation THEN file.orientation
                       ELSE sess.board_orientation]

-----------------------------------------------------------------------------
(* The component: construction and helpers                                  *)

\* initialPlacements.map / args.placements.map (599-606, 1309-1316); the items
\* the host sends are dicts with typed fields, an empty id standing for none.
RECURSIVE PlacementsFromItems(_, _)
PlacementsFromItems(items, k) ==
    IF k > Len(items) THEN << >>
    ELSE << [id |-> IF items[k].id = "" THEN PlacementIdName(k - 1) ELSE items[k].id,
             code |-> items[k].code,
             x |-> items[k].x,
             y |-> items[k].y,
             rotation |-> items[k].rotation,
             flipped |-> items[k].flipped] >> \o PlacementsFromItems(items, k + 1)

\* buildGuideCircleList(source) (708-725); idx counts the dropped circles too.
RECURSIVE buildGuideCircleList(_, _)
buildGuideCircleList(source, k) ==
    IF k > Len(source) THEN << >>
    ELSE IF source[k].radius <= 0 THEN buildGuideCircleList(source, k + 1)
         ELSE << [id |-> IF source[k].id = "" THEN CircleIdName(k - 1) ELSE source[k].id,
                  radius |-> source[k].radius,
                  x |-> source[k].x,
                  y |-> source[k].y] >> \o buildGuideCircleList(source, k + 1)

\* The id of the last element, or the first generated id when there is none.
LastIdOrFirstName(list) ==
    IF Len(list) > 0 THEN list[Len(list)].id ELSE PlacementIdName(0)

\* The id of the last element, or null (608, 729, 1322, 1328, 1681, 1692).
LastId(list) == IF Len(list) > 0 THEN list[Len(list)].id ELSE NoId

SetMin(S) == CHOOSE v \in S : \A w \in S : v <= w
SetMax(S) == CHOOSE v \in S : \A w \in S : v >= w

\* defaultPolygon() (627-629).
defaultPolygon == << <<0, 0>>, <<2400 * Mm, 0>>, <<2400 * Mm, 1200 * Mm>>, <<0, 1200 * Mm>> >>

\* A variant of recalculateBoardGeometry that takes the least corner of the
\* bounding box in the place of its centre.
BoardCornerOf(poly) ==
    [x |-> SetMin({poly[i][1] : i \in DOMAIN poly}),
     y |-> SetMin({poly[i][2] : i \in DOMAIN poly})]

\* recalculateBoardGeometry() (640-656): the bounding-box centre of poly.
BoardCenterOf(poly) ==
    LET xs == {poly[i][1] : i \in DOMAIN poly}
        ys == {poly[i][2] : i \in DOMAIN poly}
    IN  [x |-> (SetMin(xs) + SetMax(xs)) \div 2,
         y |-> (SetMin(ys) + SetMax(ys)) \div 2]

\* getPlacementById(id) (786-788) on list: found is FALSE for null.
HasPlacement(list, id) == IndexOfId(list, id) # 0
getPlacementById(list, id) == list[IndexOfId(list, id)]

\* getCircleById (1223-1225).
IndexOfCircle(circles, id) ==
    IF \E i \in DOMAIN circles : circles[i].id = id
    THEN CHOOSE i \in DOMAIN circles :
            circles[i].id = id /\ \A j \in 1..(i - 1) : circles[j].id # id
    ELSE 0

\* hitTest(placement, x, y) (1584-1600).
hitTest(placement, x, y) ==
    IF placement.code \notin LibraryCodes THEN FALSE
    ELSE LET piece == libraryByCode(placement.code)
             rotation == toRadians(placement.rotation)
             dx == x - placement.x
             dy == y - placement.y
             localX == Scaled(Cos(rotation) * dx + Sin(rotation) * dy)
             localY == Scaled(Cos(rotation) * dy - Sin(rotation) * dx)
             length == IF piece.displayLength # 0 THEN piece.displayLength
                       ELSE piece.length
         IN  IF piece.kind = "curve" /\ piece.radius # 0
             THEN \* Math.abs(dist - piece.radius) < 60, on squares
                  /\ HypotBelow(dx, dy, piece.radius + 60 * Mm)
                  /\ \/ piece.radius < 60 * Mm
                     \/ HypotExceeds(dx, dy, piece.radius - 60 * Mm)
             ELSE 2 * Abs(localX) <= length /\ Abs(localY) <= 50 * Mm

\* The value handed to Streamlit.setComponentValue by emitState() (1192-1221).
EmitState(list, circles, orientation) ==
    [present |-> TRUE, placements |-> list, circles |-> circles,
     orientation |-> orientation]

NoValue == [present |-> FALSE, placements |-> << >>, circles |-> << >>,
            orientation |-> 0]

\* activeSectionIds = null.
NoSet == [isNull |-> TRUE, ids |-> {}]

\* The target ids of a transform: sectionMode ? connectedSectionIds(id) : [id]
\* (1443, 1606, 1636, 1652).
\* A target set that takes the whole section whatever the switch says.
TargetIdsWholeSection(list, mode, id) == connectedSectionIds(list, id)

\* sectionMode ? connectedSectionIds(id) : [id] (1444, 1606, 1635, 1652).
TargetIds(list, mode, id) ==
    IF mode THEN connectedSectionIds(list, id) ELSE <<id>>

SeqToSet(q) == {q[i] : i \in DOMAIN q}

\* What a handler leaves in the history variables.
Op(name, ids, pivot, dRot, dX, dY) ==
    [name |-> name, ids |-> ids, pivot |-> pivot,
     deltaRotationDeg |-> dRot, deltaX |-> dX, deltaY |-> dY]

Origin == [x |-> 0, y |-> 0]

Snapshot(args) ==
    [placements |-> placements, polygon |-> polygon, guideCircles |-> guideCircles,
     boardOrientation |-> boardOrientation, boardCenter |-> boardCenter,
     selectedId |-> selectedId, sectionMode |-> sectionMode, args |-> args]

-----------------------------------------------------------------------------
(* Bounds and inputs of the model                                           *)

\* Handler events per behaviour.
MaxOps == 2

\* Board turns per behaviour of the board-turning specification.
MaxTurns == 4

\* Events per behaviour of the specification of gestures and transforms.
MaxMoves == 3

\* Valid validCandidates per call of findBestSnapTransform in the specification
\* of its comparisons.
MaxCandidates == 3

\* Events per behaviour of the add-piece buttons and the script's reruns.
MaxRuns == 4

\* Events per behaviour of the handlers that set the selection.
MaxPicks == 3

\* Uploads per behaviour of the loading specification.
MaxLoads == 2

\* An unknown catalogue code, as a loaded layout may carry.
UnknownCode == "X999"

\* board.polygon_points() for the default rectangle (141-149) and the default
\* L-shape (151-169), in 0.1 mm.
BoardPolygons ==
    { << <<0, 0>>, <<18000, 0>>, <<18000, 12000>>, <<0, 12000>> >>,
      << <<0, 0>>, <<24000, 0>>, <<24000, 9000>>, <<9000, 9000>>,
         <<9000, 15000>>, <<0, 15000>> >> }

Piece(id, code, x, y, rotation) ==
    RawDict(JStr(id), JStr(code), JNum(x), JNum(y), JNum(rotation), JBool(FALSE))

Layout(items, circles) ==
    [present |-> TRUE, isList |-> TRUE, items |-> items, circles |-> circles,
     hasOrientation |-> FALSE, orientation |-> 0]

NoUpload ==
    [present |-> FALSE, isList |-> TRUE, items |-> << >>, circles |-> << >>,
     hasOrientation |-> FALSE, orientation |-> 0]

\* Two straights joined end to end at (900, 600) + (84, 0), and a third whose
\* end meets the free end of the first at a right angle.
JoinLayout ==
    Layout(<< Piece("a", "R600", 9000, 6000, 0),
              Piece("b", "R600", 10680, 6000, 180 * DegreeUnit),
              Piece("c", "R600", 8160, 5160, 90 * DegreeUnit) >>, << >>)

\* A run of three straights, an unknown piece lying on the first, and a
\* planning circle.
ChainLayout ==
    Layout(<< Piece("a", "R600", 9000, 6000, 0),
              Piece("x", UnknownCode, 9000, 6000, 0),
              Piece("b", "R600", 10680, 6000, 0),
              Piece("c", "R600", 12360, 6000, 0) >>,
           << [id |-> "circle-0", radius |-> 371 * Mm, x |-> 3000, y |-> 2000] >>)

\* Two curves of one circle, 45 degrees apart, and a straight near them.
CurveLayout ==
    Layout(<< Piece("k1", "R606", 9000, 6000, 0),
              Piece("k2", "R606", 9000, 6000, 45 * DegreeUnit),
              Piece("s", "R600", 12900, 3700, 0) >>, << >>)

\* The same pieces with the curves last: the component selects a curve.
BendLayout ==
    Layout(<< Piece("s", "R600", 12900, 3700, 0),
              Piece("k1", "R606", 9000, 6000, 0),
              Piece("k2", "R606", 9000, 6000, 45 * DegreeUnit) >>, << >>)

\* A straight with one parallel straight 10 mm above and one 10 mm below.
TieLayout ==
    Layout(<< Piece("a", "R600", 9000, 6100, 0),
              Piece("b", "R600", 9000, 5900, 0),
              Piece("p", "R600", 9000, 6000, 0) >>, << >>)

\* Two straights joined end to end along a line turned by 8 degrees, off the
\* grid.
SkewLayout ==
    Layout(<< Piece("a", "R600", 9000, 6000, 8 * DegreeUnit),
              Piece("b", "R600", 10664, 6234, 8 * DegreeUnit) >>, << >>)

\* One straight at (103, 57) turned by 8 degrees.
GridLayout ==
    Layout(<< Piece("g", "R600", 1030, 570, 8 * DegreeUnit) >>, << >>)

\* Rotations outside [0, 360): 400 degrees and -400 degrees.
WideLayout ==
    Layout(<< Piece("w1", "R600", 9000, 6000, 400 * DegreeUnit),
              Piece("w2", "R600", 3000, 3000, -400 * DegreeUnit) >>, << >>)

\* A list whose first element is no dict and whose second has no id.
GapLayout ==
    Layout(<< RawOther,
              RawDict(JNone, JStr("R600"), JNum(9000), JNum(6000), JNum(0), JNone) >>,
           << >>)

Uploads == { NoUpload, JoinLayout, ChainLayout, CurveLayout, BendLayout,
             TieLayout, GridLayout, WideLayout, GapLayout, SkewLayout }

\* No list of placements at all ({} or {"placements": {...}}).
NotAList ==
    [present |-> TRUE, isList |-> FALSE, items |-> << >>, circles |-> << >>,
     hasOrientation |-> FALSE, orientation |-> 0]

EmptyList == Layout(<< >>, << >>)

\* A non-empty list none of whose elements is kept: no dict, a dict without
\* code, with an empty code, with a number for code.
AllDropped ==
    Layout(<< RawOther,
              RawDict(JStr("d1"), JNone, JNum(1000), JNum(1000), JNum(0), JBool(FALSE)),
              RawDict(JStr("d2"), JStr(""), JNum(1000), JNum(1000), JNum(0), JBool(FALSE)),
              RawDict(JStr("d3"), JNum(600), JNum(1000), JNum(1000), JNum(0), JBool(FALSE)) >>,
           << >>)

\* Fields of other types than the expected ones: {"x": "45", "y": true,
\* "rotation": [1], "flipped": "false"} and {"x": null, "y": "abc",
\* "flipped": 0}, {"flipped": 1}, {"flipped": []}.
MixedFields ==
    Layout(<< RawDict(JStr("m1"), JStr("R600"), JStr("45"), JBool(TRUE),
                      JList(TRUE), JStr("false")),
              RawDict(JStr("m2"), JStr("R600"), JNone, JStr("abc"), JNone, JNum(0)),
              RawDict(JStr("m3"), JStr("R606"), JNum(5000), JNum(5000),
                      JStr("90"), JNum(1)),
              RawDict(JStr("m4"), JStr("R600"), JList(FALSE), JBool(FALSE),
                      JBool(TRUE), JList(FALSE)) >>,
           << >>)

\* {"code": "R600", "x": 1e400 written as an integer literal}.
HugeLayout ==
    Layout(<< Piece("h1", "R600", 9000, 6000, 0),
              RawDict(JStr("h2"), JStr("R600"), JBig, JNum(0), JNum(0), JBool(FALSE)) >>,
           << >>)

\* The huge number sits in an element that is dropped before it is read.
HugeDropped ==
    Layout(<< RawDict(JStr("h0"), JNone, JBig, JNum(0), JNum(0), JBool(FALSE)),
              Piece("h1", "R600", 9000, 6000, 0) >>,
           << >>)

\* Kept and dropped elements in turn.
OrderLayout ==
    Layout(<< Piece("o1", "R600", 9000, 6000, 0),
              RawOther,
              RawDict(JStr("o2"), JNone, JNum(1000), JNum(1000), JNum(0), JBool(FALSE)),
              Piece("o3", UnknownCode, 3000, 3000, 0),
              RawDict(JNone, JStr("R606"), JNone, JNone, JNone, JNone) >>,
           << >>)

LoaderPayloads ==
    { NotAList, EmptyList, AllDropped, MixedFields, HugeLayout, HugeDropped,
      OrderLayout, GapLayout, WideLayout, ChainLayout }

\* Pointer positions in board millimetres (the result of canvasToMm, 1413).
PointerPoints == { [x |-> 9000, y |-> 6000], [x |-> 10680, y |-> 6100],
                   [x |-> 3000, y |-> 3000] }

-----------------------------------------------------------------------------
(* Construction                                                             *)

InitialSnapshot(list, board, circles, sess) ==
    [placements |-> list, polygon |-> board, guideCircles |-> circles,
     boardOrientation |-> sess.board_orientation,
     boardCenter |-> BoardCenterOf(board),
     selectedId |-> LastId(list), sectionMode |-> FALSE,
     args |-> sess.placements]

\* The script's first run (1877-1918) and the component's top level
\* (589-742, 1405-1409) for one board and one uploaded file.
InitComponent(board, file, events) ==
    LET sess == AfterUpload([placements |-> << >>, circles |-> << >>,
                             board_orientation |-> 0], file)
        list == PlacementsFromItems(sess.placements, 1)
        circles == buildGuideCircleList(sess.circles, 1)
    IN  /\ hostPolygon = board
        /\ uploaded = file
        /\ session = sess
        /\ emitted = NoValue
        /\ placements = list
        /\ nextId = Len(list)
        /\ selectedId = LastId(list)
        /\ boardOrientation = sess.board_orientation
        /\ polygon = board
        /\ boardCenter = BoardCenterOf(board)
        /\ sectionMode = FALSE
        /\ activeSectionIds = NoSet
        /\ sectionInitialPositions = {}
        /\ guideCircles = circles
        /\ circleCounter = Len(circles)
        /\ selectedCircleId = LastId(circles)
        /\ draggingCircleId = NoId
        /\ circleDragOffset = Origin
        /\ dragging = FALSE
        /\ dragOffset = Origin
        /\ viewPanning = FALSE
        /\ lastOp = Op("init", << >>, Origin, 0, 0, 0)
        /\ pre = InitialSnapshot(list, board, circles, sess)
        /\ start = InitialSnapshot(list, board, circles, sess)
        /\ trail = << >>
        /\ budget = events
        /\ ops = 0

\* No call of findBestSnapTransform is under way.
NoBest == [found |-> FALSE, distance |-> 0, rotationMagnitude |-> 0]

InitFor(board, file, events) ==
    /\ InitComponent(board, file, events)
    /\ validCandidates = << >>
    /\ compared = 0
    /\ bestSoFar = NoBest
    /\ pending = << >>
    /\ seen = << >>

Init ==
    \E board \in BoardPolygons : \E file \in Uploads : InitFor(board, file, MaxOps)

-----------------------------------------------------------------------------
(* Handlers                                                                 *)

boardVars == <<polygon, boardCenter, boardOrientation>>
circleVars == <<guideCircles, selectedCircleId, circleCounter>>
circleDragVars == <<draggingCircleId, circleDragOffset>>
pieceDragVars == <<dragging, dragOffset, viewPanning>>
snapshotVars == <<activeSectionIds, sectionInitialPositions>>
hostVars == <<hostPolygon, uploaded, session>>
solverVars == <<validCandidates, compared, bestSoFar>>
walkVars == <<pending, seen>>

\* Every handler is one event: it is counted and leaves its trace.
Record(op, args) ==
    /\ ops < budget
    /\ ops' = ops + 1
    /\ lastOp' = op
    /\ pre' = Snapshot(args)
    /\ trail' = Append(trail, [name |-> op.name,
                               deltaRotationDeg |-> op.deltaRotationDeg])
    /\ UNCHANGED <<start, budget>>

\* An event of a handler: the solver's loops are not under way.
Event(op, args) == Record(op, args) /\ UNCHANGED <<solverVars, walkVars>>

\* addPiece(code) (1251-1269), from the .add-piece buttons (1353-1358).
AddPiece(code) ==
    /\ code \in LibraryCodes
    /\ nextId < Len(PlacementIdNames)
    /\ LET newPlacement == [id |-> PlacementIdName(nextId), code |-> code,
                            x |-> boardCenter.x, y |-> boardCenter.y,
                            rotation |-> 0, flipped |-> FALSE]
       IN  /\ placements' = Append(placements, newPlacement)
           /\ nextId' = nextId + 1
           /\ selectedId' = newPlacement.id
           /\ activeSectionIds' = NoSet
           /\ sectionInitialPositions' = {}
           /\ emitted' = EmitState(placements', guideCircles, boardOrientation)
    /\ Event(Op("addPiece", << >>, Origin, 0, 0, 0), << >>)
    /\ UNCHANGED <<sectionMode, boardVars, circleVars, circleDragVars,
                   pieceDragVars, hostVars>>

\* The .add-circle buttons (1360-1381); radius is the button's data-radius.
AddCircle(radius) ==
    /\ radius > 0
    /\ circleCounter < Len(CircleIdNames)
    /\ LET newCircle == [id |-> CircleIdName(circleCounter), radius |-> radius,
                         x |-> boardCenter.x, y |-> boardCenter.y]
       IN  /\ guideCircles' = Append(guideCircles, newCircle)
           /\ circleCounter' = circleCounter + 1
           /\ selectedCircleId' = newCircle.id
           /\ selectedId' = NoId
           /\ emitted' = EmitState(placements, guideCircles', boardOrientation)
    /\ Event(Op("addCircle", << >>, Origin, 0, 0, 0), << >>)
    /\ UNCHANGED <<placements, nextId, sectionMode, boardVars, circleDragVars,
                   pieceDragVars, snapshotVars, hostVars>>

\* The click handler of an entry of the circle list (1727-1737).
SelectCircle ==
    /\ \E i \in DOMAIN guideCircles : selectedCircleId' = guideCircles[i].id
    /\ selectedId' = NoId
    /\ emitted' = EmitState(placements, guideCircles, boardOrientation)
    /\ Event(Op("selectCircle", << >>, Origin, 0, 0, 0), << >>)
    /\ UNCHANGED <<placements, nextId, sectionMode, boardVars, guideCircles,
                   circleCounter, circleDragVars, pieceDragVars, snapshotVars,
                   hostVars>>

RemoveAt(list, i) == SubSeq(list, 1, i - 1) \o SubSeq(list, i + 1, Len(list))

\* The deletePiece click handler (1676-1698).
DeletePiece ==
    LET circleIndex == IF selectedCircleId = NoId THEN 0
                       ELSE IndexOfCircle(guideCircles, selectedCircleId)
        index == IF selectedId = NoId THEN 0 ELSE IndexOfId(placements, selectedId)
    IN  /\ \/ /\ circleIndex # 0
              /\ guideCircles' = RemoveAt(guideCircles, circleIndex)
              /\ selectedCircleId' = LastId(guideCircles')
              /\ emitted' = EmitState(placements, guideCircles', boardOrientation)
              /\ UNCHANGED <<placements, selectedId, snapshotVars>>
           \/ /\ circleIndex = 0
              /\ index # 0
              /\ placements' = RemoveAt(placements, index)
              /\ selectedId' = LastId(placements')
              /\ activeSectionIds' = NoSet
              /\ sectionInitialPositions' = {}
              /\ emitted' = EmitState(placements', guideCircles, boardOrientation)
              /\ UNCHANGED <<guideCircles, selectedCircleId>>
        /\ Event(Op("deletePiece", << >>, Origin, 0, 0, 0), << >>)
        /\ UNCHANGED <<nextId, sectionMode, boardVars, circleCounter,
                       circleDragVars, pieceDragVars, hostVars>>

\* adjustSelected(deltaRotation, deltaX, deltaY) (1602-1610).
adjustSelected(deltaRotation, deltaX, deltaY) ==
    /\ selectedId # NoId
    /\ HasPlacement(placements, selectedId)
    /\ LET placement == getPlacementById(placements, selectedId)
           pivot == [x |-> placement.x, y |-> placement.y]
           sectionIds == TargetIds(placements, sectionMode, selectedId)
       IN  /\ placements' = applySectionTransform(placements, sectionIds, pivot,
                                                  deltaRotation, deltaX, deltaY)
           /\ Event(Op("adjustSelected", sectionIds, pivot,
                       deltaRotation, deltaX, deltaY), << >>)
    /\ emitted' = EmitState(placements', guideCircles, boardOrientation)
    /\ UNCHANGED <<nextId, selectedId, sectionMode, boardVars, circleVars,
                   circleDragVars, pieceDragVars, snapshotVars, hostVars>>

\* The rotateLeft and rotateRight buttons (1612-1613).
RotatePiece == \E d \in {-15, 15} : adjustSelected(d * DegreeUnit, 0, 0)

\* The four nudge buttons (1614-1617).
NudgePiece ==
    \E d \in { <<0, 10>>, <<0, -10>>, <<-10, 0>>, <<10, 0>> } :
        adjustSelected(0, d[1] * Mm, d[2] * Mm)

\* The flipPiece click handler (1618-1624).
\* A flip that follows the section-move switch as the transforms do.
FlipSection ==
    /\ selectedId # NoId
    /\ HasPlacement(placements, selectedId)
    /\ LET ids == SeqToSet(TargetIds(placements, sectionMode, selectedId))
       IN  placements' = [i \in DOMAIN placements |->
                             IF placements[i].id \in ids
                             THEN [placements[i] EXCEPT !.flipped = ~placements[i].flipped]
                             ELSE placements[i]]
    /\ emitted' = EmitState(placements', guideCircles, boardOrientation)
    /\ Event(Op("flipPiece", <<selectedId>>, Origin, 0, 0, 0), << >>)
    /\ UNCHANGED <<nextId, selectedId, sectionMode, boardVars, circleVars,
                   circleDragVars, pieceDragVars, snapshotVars, hostVars>>

\* The flipPiece click handler (1618-1624).
FlipPiece ==
    /\ selectedId # NoId
    /\ HasPlacement(placements, selectedId)
    /\ LET idx == IndexOfId(placements, selectedId)
       IN  placements' = [placements EXCEPT ![idx].flipped = ~placements[idx].flipped]
    /\ emitted' = EmitState(placements', guideCircles, boardOrientation)
    /\ Event(Op("flipPiece", <<selectedId>>, Origin, 0, 0, 0), << >>)
    /\ UNCHANGED <<nextId, selectedId, sectionMode, boardVars, circleVars,
                   circleDragVars, pieceDragVars, snapshotVars, hostVars>>

\* A reduction of the target angle by one signed remainder: value % 360.
WrapTargetOnce(value) == JsMod(value, 360 * DegreeUnit)

\* ((value % 360) + 360) % 360 (1640).
WrapTarget(value) ==
    JsMod(JsMod(value, 360 * DegreeUnit) + 360 * DegreeUnit, 360 * DegreeUnit)

\* The snapGrid click handler (1626-1644).
SnapGrid ==
    /\ selectedId # NoId
    /\ HasPlacement(placements, selectedId)
    /\ LET placement == getPlacementById(placements, selectedId)
           targetX == JsRound(placement.x, 10 * Mm) * (10 * Mm)
           targetY == JsRound(placement.y, 10 * Mm) * (10 * Mm)
           targetRotation == JsRound(placement.rotation, 15 * DegreeUnit)
                                 * (15 * DegreeUnit)
           deltaX == targetX - placement.x
           deltaY == targetY - placement.y
           deltaRotation == normalizeDegrees(targetRotation - placement.rotation)
           pivot == [x |-> placement.x, y |-> placement.y]
           sectionIds == TargetIds(placements, sectionMode, selectedId)
           moved == applySectionTransform(placements, sectionIds, pivot,
                                          deltaRotation, deltaX, deltaY)
           idx == IndexOfId(moved, selectedId)
       IN  /\ placements' = [moved EXCEPT ![idx].rotation = WrapTarget(targetRotation)]
           /\ Event(Op("snapGrid", sectionIds, pivot, deltaRotation, deltaX, deltaY),
                    << >>)
    /\ emitted' = EmitState(placements', guideCircles, boardOrientation)
    /\ UNCHANGED <<nextId, selectedId, sectionMode, boardVars, circleVars,
                   circleDragVars, pieceDragVars, snapshotVars, hostVars>>

\* The snapPiece click handler (1646-1656).
\* The transform of the handler applied (1650-1653).
ApplySnap(transform, pivot, sectionIds) ==
    /\ transform.found
    /\ placements' = applySectionTransform(placements, sectionIds, pivot,
                         transform.deltaRotationDeg, transform.deltaX,
                         transform.deltaY)
    /\ Event(Op("snapPiece", sectionIds, pivot, transform.deltaRotationDeg,
                transform.deltaX, transform.deltaY), << >>)

SnapPiece ==
    /\ selectedId # NoId
    /\ HasPlacement(placements, selectedId)
    /\ ApplySnap(findBestSnapTransform(placements,
                                       getPlacementById(placements, selectedId)),
                 [x |-> getPlacementById(placements, selectedId).x,
                  y |-> getPlacementById(placements, selectedId).y],
                 TargetIds(placements, sectionMode, selectedId))
    /\ emitted' = EmitState(placements', guideCircles, boardOrientation)
    /\ UNCHANGED <<nextId, selectedId, sectionMode, boardVars, circleVars,
                   circleDragVars, pieceDragVars, snapshotVars, hostVars>>

\* The toggleSectionMode click handler (1666-1675).
ToggleSectionMode ==
    /\ sectionMode' = ~sectionMode
    /\ IF ~sectionMode'
       THEN activeSectionIds' = NoSet /\ sectionInitialPositions' = {}
       ELSE UNCHANGED snapshotVars
    /\ Event(Op("toggleSectionMode", << >>, Origin, 0, 0, 0), << >>)
    /\ UNCHANGED <<placements, nextId, selectedId, boardVars, circleVars,
                   circleDragVars, pieceDragVars, hostVars, emitted>>


\* A rotation of one point about the origin of the canvas, whatever the centre.
RotateAboutOrigin(x, y, centre, radians) == rotatePoint(x, y, radians)

\* The rotation of one point about centre used by rotateBoard (1168-1169,
\* 1172-1174, 1178-1180).
RotateAbout(x, y, centre, radians) ==
    LET rotated == rotatePoint(x - centre.x, y - centre.y, radians)
    IN  [x |-> centre.x + rotated.x, y |-> centre.y + rotated.y]

\* boardOrientation = (boardOrientation + deltaDegrees) % 360 (1182).
NextOrientation(orientation, deltaDegrees) ==
    JsMod(orientation + deltaDegrees, 360 * DegreeUnit)

\* rotateBoard(deltaDegrees) (1163-1190), from the board buttons (1398-1403).
rotateBoard(deltaDegrees) ==
    LET radians == toRadians(deltaDegrees)
        centre == boardCenter
        RotPoint(pt) == LET r == RotateAbout(pt[1], pt[2], centre, radians)
                        IN  <<r.x, r.y>>
        RotPiece(piece) == LET r == RotateAbout(piece.x, piece.y, centre, radians)
                           IN  [piece EXCEPT !.x = r.x, !.y = r.y,
                                    !.rotation = WrapRotation(piece.rotation + deltaDegrees)]
        RotCircle(circle) == LET r == RotateAbout(circle.x, circle.y, centre, radians)
                             IN  [circle EXCEPT !.x = r.x, !.y = r.y]
    IN  /\ polygon' = [i \in DOMAIN polygon |-> RotPoint(polygon[i])]
        /\ placements' = [i \in DOMAIN placements |-> RotPiece(placements[i])]
        /\ guideCircles' = [i \in DOMAIN guideCircles |-> RotCircle(guideCircles[i])]
        /\ boardOrientation' = NextOrientation(boardOrientation, deltaDegrees)
        /\ boardCenter' = BoardCenterOf(polygon')
        /\ emitted' = EmitState(placements', guideCircles', boardOrientation')
        /\ Event(Op("rotateBoard", << >>, centre, deltaDegrees, 0, 0), << >>)
        /\ UNCHANGED <<nextId, selectedId, sectionMode, selectedCircleId,
                       circleCounter, circleDragVars, pieceDragVars,
                       snapshotVars, hostVars>>

RotateBoard == \E d \in {-90, 90} : rotateBoard(d * DegreeUnit)

\* One run of the script and the render event it sends: the upload branch
\* (1889-1910), the arguments of the component (1912-1915, 1814-1823),
\* applyRenderArgs(args) (1297-1335) with applyBoardPayload (1271-1295), and
\* the session state the run leaves (1824-1855, 1916-1918).
RenderArgs(file) ==
    LET sess == AfterUpload(session, file)
        args == [placements |-> sess.placements, circles |-> sess.circles,
                 board |-> [polygon |-> hostPolygon,
                            orientation |-> sess.board_orientation]]
    IN  /\ polygon' = IF Len(args.board.polygon) > 0 THEN args.board.polygon
                      ELSE IF Len(polygon) = 0 THEN defaultPolygon ELSE polygon
        /\ boardOrientation' = args.board.orientation
        /\ boardCenter' = BoardCenterOf(polygon')
        /\ placements' = PlacementsFromItems(args.placements, 1)
        /\ nextId' = Len(placements')
        /\ guideCircles' = buildGuideCircleList(args.circles, 1)
        /\ circleCounter' = Len(guideCircles')
        /\ selectedCircleId' = LastId(guideCircles')
        /\ selectedId' = LastId(placements')
        /\ session' = IF emitted.present
                      THEN [placements |-> emitted.placements,
                            circles |-> emitted.circles,
                            board_orientation |-> emitted.orientation]
                      ELSE sess
        /\ Event(Op("render", << >>, Origin, 0, 0, 0), args.placements)
        /\ UNCHANGED <<sectionMode, circleDragVars, pieceDragVars, snapshotVars,
                       hostPolygon, emitted>>

\* A run of the script that an uncaught exception of the upload branch ends
\* (1889-1897): nothing is stored in the session and no render event is sent.
ScriptError ==
    /\ Event(Op("scriptError", << >>, Origin, 0, 0, 0), << >>)
    /\ UNCHANGED <<placements, nextId, selectedId, sectionMode, boardVars,
                   circleVars, circleDragVars, pieceDragVars, snapshotVars,
                   hostPolygon, session, emitted>>

\* One run of the script with file in the uploader.
RunScript(file) == IF ScriptDies(file) THEN ScriptError ELSE RenderArgs(file)

\* A rerun of the script with the uploader as it is.
Render == RunScript(uploaded) /\ UNCHANGED uploaded

\* The user puts file in the uploader (1889), which reruns the script.
Upload(file) == RunScript(file) /\ uploaded' = file

\* The index of the topmost guide circle under (x, y), 0 if none (1414-1417).
CircleUnder(x, y) ==
    LET hits == {i \in DOMAIN guideCircles :
                    ~HypotExceeds(x - guideCircles[i].x, y - guideCircles[i].y,
                                  guideCircles[i].radius)}
    IN  IF hits = {} THEN 0 ELSE SetMax(hits)

\* The index of the topmost placement under (x, y), 0 if none (1429-1435).
PlacementUnder(x, y) ==
    LET hits == {i \in DOMAIN placements : hitTest(placements[i], x, y)}
    IN  IF hits = {} THEN 0 ELSE SetMax(hits)

\* The pointerdown handler (1411-1470).  One pointer: no gesture is in
\* progress when it goes down.
PointerDown(pt) ==
    LET ci == CircleUnder(pt.x, pt.y)
        pi == PlacementUnder(pt.x, pt.y)
    IN  /\ ~dragging /\ ~viewPanning /\ draggingCircleId = NoId
        /\ \/ /\ ci # 0
              /\ selectedCircleId' = guideCircles[ci].id
              /\ selectedId' = NoId
              /\ draggingCircleId' = guideCircles[ci].id
              /\ circleDragOffset' = [x |-> pt.x - guideCircles[ci].x,
                                      y |-> pt.y - guideCircles[ci].y]
              /\ UNCHANGED <<pieceDragVars, snapshotVars>>
           \/ /\ ci = 0
              /\ pi # 0
              /\ LET found == placements[pi]
                     sectionIds == TargetIds(placements, sectionMode, found.id)
                 IN  /\ selectedId' = found.id
                     /\ selectedCircleId' = NoId
                     /\ dragOffset' = [x |-> pt.x - found.x, y |-> pt.y - found.y]
                     /\ dragging' = TRUE
                     /\ viewPanning' = FALSE
                     /\ activeSectionIds' = [isNull |-> FALSE, ids |-> SeqToSet(sectionIds)]
                     /\ sectionInitialPositions' =
                            { [id |-> id,
                               x |-> getPlacementById(placements, id).x,
                               y |-> getPlacementById(placements, id).y] :
                              id \in {i \in SeqToSet(sectionIds) : HasPlacement(placements, i)} }
              /\ UNCHANGED circleDragVars
           \/ /\ ci = 0
              /\ pi = 0
              /\ selectedId' = NoId
              /\ selectedCircleId' = NoId
              /\ activeSectionIds' = NoSet
              /\ sectionInitialPositions' = {}
              /\ viewPanning' = TRUE
              /\ UNCHANGED <<dragging, dragOffset, circleDragVars>>
        /\ Event(Op("pointerdown", << >>, pt, 0, 0, 0), << >>)
        /\ UNCHANGED <<placements, nextId, sectionMode, boardVars, guideCircles,
                       circleCounter, hostVars, emitted>>

HasStart(id) == \E e \in sectionInitialPositions : e.id = id
StartOf(id) == CHOOSE e \in sectionInitialPositions : e.id = id

\* The pointermove handler (1472-1514); the view-panning branch moves the
\* view only.
PointerMove(pt) ==
    \/ /\ draggingCircleId # NoId
       /\ IndexOfCircle(guideCircles, draggingCircleId) # 0
       /\ LET i == IndexOfCircle(guideCircles, draggingCircleId)
          IN  guideCircles' = [guideCircles EXCEPT
                                  ![i].x = pt.x - circleDragOffset.x,
                                  ![i].y = pt.y - circleDragOffset.y]
       /\ Event(Op("pointermove", << >>, pt, 0, 0, 0), << >>)
       /\ UNCHANGED <<placements, nextId, selectedId, sectionMode, boardVars,
                      selectedCircleId, circleCounter, circleDragVars,
                      pieceDragVars, snapshotVars, hostVars, emitted>>
    \/ /\ draggingCircleId = NoId
       /\ ~viewPanning
       /\ dragging
       /\ selectedId # NoId
       /\ HasPlacement(placements, selectedId)
       /\ LET placement == getPlacementById(placements, selectedId)
              initial == IF HasStart(selectedId)
                         THEN [x |-> StartOf(selectedId).x, y |-> StartOf(selectedId).y]
                         ELSE [x |-> placement.x, y |-> placement.y]
              targetX == pt.x - dragOffset.x
              targetY == pt.y - dragOffset.y
              deltaX == targetX - initial.x
              deltaY == targetY - initial.y
              ids == IF activeSectionIds.isNull THEN {selectedId}
                     ELSE activeSectionIds.ids
              Moves(i) == \E id \in ids : IndexOfId(placements, id) = i /\ HasStart(id)
          IN  /\ placements' =
                    [i \in DOMAIN placements |->
                        IF Moves(i)
                        THEN [placements[i] EXCEPT
                                 !.x = StartOf(placements[i].id).x + deltaX,
                                 !.y = StartOf(placements[i].id).y + deltaY]
                        ELSE placements[i]]
              /\ Event(Op("pointermove", << >>, pt, 0, deltaX, deltaY), << >>)
       /\ UNCHANGED <<nextId, selectedId, sectionMode, boardVars, circleVars,
                      circleDragVars, pieceDragVars, snapshotVars, hostVars, emitted>>

\* An end of gesture that puts the dragged placements back where the
\* pointer-down found them.
EndGestureRollback(name) ==
    /\ dragging \/ viewPanning \/ draggingCircleId # NoId
    /\ dragging' = FALSE
    /\ placements' = [i \in DOMAIN placements |->
                         IF dragging /\ HasStart(placements[i].id)
                         THEN [placements[i] EXCEPT
                                  !.x = StartOf(placements[i].id).x,
                                  !.y = StartOf(placements[i].id).y]
                         ELSE placements[i]]
    /\ IF dragging
       THEN activeSectionIds' = NoSet /\ sectionInitialPositions' = {}
       ELSE UNCHANGED snapshotVars
    /\ viewPanning' = FALSE
    /\ draggingCircleId' = NoId
    /\ emitted' = EmitState(placements', guideCircles, boardOrientation)
    /\ Event(Op(name, << >>, Origin, 0, 0, 0), << >>)
    /\ UNCHANGED <<nextId, selectedId, sectionMode, boardVars,
                   circleVars, circleDragOffset, dragOffset, hostVars>>

\* The body shared by the pointerup (1516-1539) and pointercancel (1541-1564)
\* handlers.
EndGesture(name) ==
    /\ dragging \/ viewPanning \/ draggingCircleId # NoId
    /\ dragging' = FALSE
    /\ IF dragging
       THEN activeSectionIds' = NoSet /\ sectionInitialPositions' = {}
       ELSE UNCHANGED snapshotVars
    /\ viewPanning' = FALSE
    /\ draggingCircleId' = NoId
    /\ emitted' = EmitState(placements, guideCircles, boardOrientation)
    /\ Event(Op(name, << >>, Origin, 0, 0, 0), << >>)
    /\ UNCHANGED <<placements, nextId, selectedId, sectionMode, boardVars,
                   circleVars, circleDragOffset, dragOffset, hostVars>>

PointerUp == EndGesture("pointerup")
PointerCancel == EndGesture("pointercancel")

-----------------------------------------------------------------------------
(* The component under its events                                           *)

Next ==
    \/ \E code \in LibraryCodes : AddPiece(code)
    \/ AddCircle(371 * Mm)
    \/ DeletePiece
    \/ RotatePiece
    \/ NudgePiece
    \/ FlipPiece
    \/ SnapGrid
    \/ SnapPiece
    \/ ToggleSectionMode
    \/ RotateBoard
    \/ Render
    \/ \E pt \in PointerPoints : PointerDown(pt)
    \/ \E pt \in PointerPoints : PointerMove(pt)
    \/ PointerUp
    \/ PointerCancel

Spec == Init /\ [][Next]_vars

\* The board buttons alone (1398-1403), for up to MaxTurns turns.
InitBoard ==
    \E board \in BoardPolygons : \E file \in Uploads : InitFor(board, file, MaxTurns)

NextBoard == RotateBoard

SpecBoard == InitBoard /\ [][NextBoard]_vars

\* The pointer on the canvas (1411-1564), the section-move switch
\* (1666-1675), the transform buttons (1602-1656) and the script's reruns, for
\* up to MaxMoves events.
InitMove ==
    \E board \in BoardPolygons : \E file \in Uploads : InitFor(board, file, MaxMoves)

NextMove ==
    \/ \E pt \in PointerPoints : PointerDown(pt)
    \/ \E pt \in PointerPoints : PointerMove(pt)
    \/ PointerUp
    \/ PointerCancel
    \/ ToggleSectionMode
    \/ RotatePiece
    \/ NudgePiece
    \/ SnapGrid
    \/ SnapPiece
    \/ Render

SpecMove == InitMove /\ [][NextMove]_vars

\* The add-piece buttons (1353-1358) and the script's reruns that follow the
\* component's emissions (1814-1855, 1912-1918), for up to MaxRuns events.
InitHost ==
    \E board \in BoardPolygons : \E file \in Uploads : InitFor(board, file, MaxRuns)

NextHost ==
    \/ \E code \in LibraryCodes : AddPiece(code)
    \/ Render

SpecHost == InitHost /\ [][NextHost]_vars

\* The handlers that set the selection: the add buttons (1353-1381), the
\* delete button (1676-1698), the pointer going down and up on the canvas
\* (1411-1470, 1516-1539), the circle list (1727-1737) and the script's
\* reruns, for up to MaxPicks events.
InitSelect ==
    \E board \in BoardPolygons : \E file \in Uploads : InitFor(board, file, MaxPicks)

NextSelect ==
    \/ \E code \in LibraryCodes : AddPiece(code)
    \/ AddCircle(371 * Mm)
    \/ DeletePiece
    \/ SelectCircle
    \/ \E pt \in PointerPoints : PointerDown(pt)
    \/ PointerUp
    \/ Render

SpecSelect == InitSelect /\ [][NextSelect]_vars

\* Eight R606 curves about one centre, 45 degrees apart: a closed loop.
RingLayout ==
    Layout(<< Piece("r1", "R606", 9000, 6000, 0),
              Piece("r2", "R606", 9000, 6000, 45 * DegreeUnit),
              Piece("r3", "R606", 9000, 6000, 90 * DegreeUnit),
              Piece("r4", "R606", 9000, 6000, 135 * DegreeUnit),
              Piece("r5", "R606", 9000, 6000, 180 * DegreeUnit),
              Piece("r6", "R606", 9000, 6000, 225 * DegreeUnit),
              Piece("r7", "R606", 9000, 6000, 270 * DegreeUnit),
              Piece("r8", "R606", 9000, 6000, 315 * DegreeUnit) >>, << >>)

\* An id that no placement carries.
GhostId == "ghost"

\* One pass of the while loop of connectedSectionIds (1060-1081): the head of
\* the queue is taken off; unless it is skipped it is added to visited, and
\* the ids of the placements joined to it are pushed.
SectionStep ==
    /\ pending # << >>
    /\ LET currentId == Head(pending)
           visitedIds == SeqToSet(seen)
           idx == IndexOfId(placements, currentId)
       IN  IF SkipsId(currentId, visitedIds)
           THEN pending' = Tail(pending) /\ seen' = seen
           ELSE /\ seen' = Append(seen, currentId)
                /\ pending' =
                      IF idx = 0 THEN Tail(pending)
                      ELSE Tail(pending)
                              \o PushedIds(placements, 1, currentId,
                                           visitedIds \cup {currentId},
                                           endpointGeometry(placements[idx]))
    /\ UNCHANGED <<placements, nextId, selectedId, sectionMode, boardVars,
                   circleVars, circleDragVars, pieceDragVars, snapshotVars,
                   hostVars, emitted, solverVars, lastOp, pre, ops, start,
                   trail, budget>>

\* One call connectedSectionIds(originId) (1057-1083), pass by pass, on the
\* collection of a loaded layout; originId is an id of the collection, an id
\* that no placement carries, or null.
InitSection ==
    \E board \in BoardPolygons : \E file \in Uploads \cup {RingLayout} :
        /\ InitComponent(board, file, 0)
        /\ validCandidates = << >>
        /\ compared = 0
        /\ bestSoFar = NoBest
        /\ seen = << >>
        /\ \E originId \in {placements[i].id : i \in DOMAIN placements}
                              \cup {GhostId, NoId} :
              pending = <<originId>>

NextSection == SectionStep

SpecSection == InitSection /\ [][NextSection]_vars

\* The loop runs on while the queue holds an id (1060): weak fairness of
\* SectionStep, its enabling condition written out as the loop's test.
SpecSectionLive ==
    SpecSection /\ (<>[](pending # << >>) => []<><<SectionStep>>_vars)

\* 1e-6, the tolerance of the comparisons of findBestSnapTransform
\* (1142-1143), in the unit of FineCandidates: a quarter of it.
SNAP_EPSILON == 4

\* Distances (mm) and rotation magnitudes (degrees) of valid candidates that
\* lie a few quarters of 1e-6 above a common base, as doubles can.
FineCandidates ==
    { [found |-> TRUE, distance |-> d, rotationMagnitude |-> r] :
         d \in {3, 5, 8}, r \in {0, 3, 8} }

\* The test that replaces best (1140-1144) as the doubles decide it.
ReplacesBestFine(current, cand) ==
    \/ ~current.found
    \/ cand.distance < current.distance - SNAP_EPSILON
    \/ /\ Abs(cand.distance - current.distance) < SNAP_EPSILON
       /\ cand.rotationMagnitude < current.rotationMagnitude - SNAP_EPSILON

\* One pass of the body of candidateTangents.forEach for a valid candidate
\* (1137-1152).
TryCandidate ==
    /\ compared < Len(validCandidates)
    /\ compared' = compared + 1
    /\ bestSoFar' = IF ReplacesBestFine(bestSoFar, validCandidates[compared + 1])
                    THEN validCandidates[compared + 1] ELSE bestSoFar
    /\ Record(Op("candidate", << >>, Origin, 0, 0, 0), << >>)
    /\ UNCHANGED <<validCandidates, placements, nextId, selectedId, sectionMode,
                   boardVars, circleVars, circleDragVars, pieceDragVars,
                   snapshotVars, hostVars, emitted, walkVars>>

\* One call of findBestSnapTransform (1106-1161) with up to MaxCandidates
\* valid candidates, comparison by comparison.
InitSolve ==
    /\ \E board \in BoardPolygons : InitComponent(board, NoUpload, MaxCandidates)
    /\ \E n \in 1..MaxCandidates : validCandidates \in [1..n -> FineCandidates]
    /\ compared = 0
    /\ bestSoFar = NoBest
    /\ pending = << >>
    /\ seen = << >>

NextSolve == TryCandidate

SpecSolve == InitSolve /\ [][NextSolve]_vars

\* The uploader alone (1889-1918): up to MaxLoads files, one after the other,
\* into an empty layout.
InitLoad == \E board \in BoardPolygons : InitFor(board, NoUpload, MaxLoads)

NextLoad == \E file \in LoaderPayloads : Upload(file)

SpecLoad == InitLoad /\ [][NextLoad]_vars

-----------------------------------------------------------------------------
(* Properties                                                               *)

Unknown(placement) == placement.code \notin LibraryCodes

\* The collection list without its element at index i.
Others(list, i) == RemoveAt(list, i)

\* C1: placement ids stay unique: no two placements of the collection share
\* an id, whatever add-piece, remove, render and transform events happened.
C1_IdsUnique ==
    \A i, j \in DOMAIN placements :
        i # j => placements[i].id # placements[j].id

\* C2: the rotation of every placement lies in [0, 360) degrees in every
\* reachable state, directly after a load as well as after any operation.
C2_RotationInRange ==
    \A i \in DOMAIN placements :
        /\ placements[i].rotation >= 0
        /\ placements[i].rotation < 360 * DegreeUnit

\* The handlers that keep every placement of the collection.
KeepingOps ==
    { "addPiece", "addCircle", "adjustSelected", "flipPiece", "snapGrid",
      "snapPiece", "toggleSectionMode", "rotateBoard", "pointerdown",
      "pointermove", "pointerup", "pointercancel" }

\* The number of elements of a loaded list that carry the unknown code.
UnknownItems(file) ==
    Cardinality({k \in DOMAIN file.items :
                    file.items[k].isDict /\ file.items[k].code = JStr(UnknownCode)})

\* C3: a placement whose code is not in the catalogue is inert: it has no
\* endpoint, it is in no other placement's section, its own section is itself
\* alone, no snap search is changed by its presence and the search on it
\* returns none; and it stays in the collection across load, render and
\* every transform.
C3_UnknownInert ==
    /\ \A i \in DOMAIN placements :
          Unknown(placements[i]) =>
             /\ endpointGeometry(placements[i]) = << >>
             /\ connectedSectionIds(placements, placements[i].id) = <<placements[i].id>>
             /\ ~findBestSnapTransform(placements, placements[i]).found
             /\ \A j \in DOMAIN placements :
                   placements[j].id # placements[i].id =>
                      /\ placements[i].id \notin
                            SeqToSet(connectedSectionIds(placements, placements[j].id))
                      /\ findBestSnapTransform(placements, placements[j])
                            = findBestSnapTransform(Others(placements, i), placements[j])
    /\ lastOp.name \in KeepingOps =>
          \A i \in DOMAIN pre.placements :
             Unknown(pre.placements[i]) =>
                /\ i \in DOMAIN placements
                /\ placements[i].id = pre.placements[i].id
                /\ placements[i].code = pre.placements[i].code
    /\ lastOp.name = "render" =>
          /\ Len(placements) = Len(pre.args)
          /\ \A i \in DOMAIN pre.args : placements[i].code = pre.args[i].code
    /\ uploaded.present /\ ~NormaliseLayoutPayload(uploaded).raised =>
          Cardinality({k \in DOMAIN NormaliseLayoutPayload(uploaded).placements :
                          Unknown(NormaliseLayoutPayload(uploaded).placements[k])})
             = UnknownItems(uploaded)

\* A snap of the selected piece has just moved it in a collection that holds
\* a placement of unknown code, loaded from a file.
C3_Witness ==
    /\ lastOp.name = "snapPiece"
    /\ UnknownItems(uploaded) > 0
    /\ \E i \in DOMAIN placements : Unknown(placements[i])
    /\ \E i \in DOMAIN pre.placements : Unknown(pre.placements[i])

\* Some endpoint of list[i] is connected to some endpoint of list[j].
Linked(list, i, j) ==
    /\ i # j
    /\ AnyEndpointsConnected(endpointGeometry(list[i]), endpointGeometry(list[j]))

\* The indices reachable from the set S of indices through Linked: the least
\* set that contains S and is closed under Linked.
RECURSIVE Reach(_, _)
Reach(list, S) ==
    LET T == S \cup {j \in DOMAIN list : \E i \in S : Linked(list, i, j)}
    IN  IF T = S THEN S ELSE Reach(list, T)

\* C4: connectedSectionIds(origin) lists, each once, exactly the placements
\* reachable from origin through "some endpoint of A is connected to some
\* endpoint of B", origin included (ids identify placements: the collection
\* holds no id twice).
C4_SectionIsClosure ==
    C1_IdsUnique =>
        \A o \in DOMAIN placements :
            LET section == connectedSectionIds(placements, placements[o].id)
            IN  /\ SeqToSet(section) = {placements[i].id : i \in Reach(placements, {o})}
                /\ Len(section) = Cardinality(SeqToSet(section))
                /\ section[1] = placements[o].id

\* A section transform has just moved a section of three or more pieces, two
\* of which were joined only through a third.
C4_Witness ==
    /\ lastOp.name = "adjustSelected"
    /\ pre.sectionMode
    /\ Len(lastOp.ids) >= 3
    /\ \E i, j \in DOMAIN pre.placements :
          /\ i # j
          /\ pre.placements[i].id \in SeqToSet(lastOp.ids)
          /\ pre.placements[j].id \in SeqToSet(lastOp.ids)
          /\ ~Linked(pre.placements, i, j)
    /\ \A i, j \in DOMAIN pre.placements : i # j => pre.placements[i].id # pre.placements[j].id

IsStraight(placement) ==
    /\ placement.code \in LibraryCodes
    /\ libraryByCode(placement.code).kind = "straight"

\* The pairs of indices of two different straights of list.
StraightPairs(list) ==
    { ij \in (DOMAIN list) \X (DOMAIN list) :
        ij[1] # ij[2] /\ IsStraight(list[ij[1]]) /\ IsStraight(list[ij[2]]) }

\* The pairs of endpoints of two different straights of list that lie at the
\* same position and whose tangents differ by diff (up to sign).
CoincidentEnds(list, diff) ==
    { ef \in UNION { SeqToSet(endpointGeometry(list[ij[1]]))
                        \X SeqToSet(endpointGeometry(list[ij[2]])) :
                     ij \in StraightPairs(list) } :
        /\ ef[1].x = ef[2].x
        /\ ef[1].y = ef[2].y
        /\ Abs(normalizeRadians(ef[1].tangent - ef[2].tangent)) = diff }

\* The spec's example: R600 at (0, 0) rotation 0 and at (168, 0) rotation 180.
ExampleLeft ==
    [id |-> "left", code |-> "R600", x |-> 0, y |-> 0, rotation |-> 0,
     flipped |-> FALSE]
ExampleRight ==
    [id |-> "right", code |-> "R600", x |-> 168 * Mm, y |-> 0,
     rotation |-> 180 * DegreeUnit, flipped |-> FALSE]

\* C5: two straights with an endpoint of each at the same position: the
\* endpoints are connected when their tangents differ by exactly pi and not
\* connected when they differ by pi/2; R600 at (0,0) rotation 0 and R600 at
\* (168,0) rotation 180 share the point (84,0) with tangents 0 and pi and are
\* connected.
C5_StraightJoin ==
    /\ \A ef \in CoincidentEnds(placements, Pi) : endpointsAreConnected(ef[1], ef[2])
    /\ \A ef \in CoincidentEnds(placements, Pi \div 2) : ~endpointsAreConnected(ef[1], ef[2])
    /\ LET e == endpointGeometry(ExampleLeft)[1]
           f == endpointGeometry(ExampleRight)[1]
       IN  /\ e.x = 84 * Mm /\ e.y = 0 /\ f.x = 84 * Mm /\ f.y = 0
           /\ {Abs(e.tangent), Abs(f.tangent)} = {0, Pi}
           /\ endpointsAreConnected(e, f)
           /\ SeqToSet(connectedSectionIds(<<ExampleLeft, ExampleRight>>, "left"))
                 = {"left", "right"}

\* The board has just been turned with, on it, a pair of straight ends that
\* meet head on and a pair that meet at a right angle.
C5_Witness ==
    /\ lastOp.name = "rotateBoard"
    /\ CoincidentEnds(placements, Pi) # {}
    /\ CoincidentEnds(placements, Pi \div 2) # {}

\* The candidates of placement against list as the loops of
\* findBestSnapTransform meet them: <<k, c>> is candidate c of the other
\* placement list[k].
SnapTrials(list, placement) ==
    { kc \in UNION { {k} \X DOMAIN CandidatesOf(placement, endpointGeometry(placement),
                                                endpointGeometry(list[k])) :
                     k \in {i \in DOMAIN list : list[i].id # placement.id} } :
        CandidatesOf(placement, endpointGeometry(placement),
                     endpointGeometry(list[kc[1]]))[kc[2]].found }

TrialOf(list, placement, kc) ==
    CandidatesOf(placement, endpointGeometry(placement),
                 endpointGeometry(list[kc[1]]))[kc[2]]

\* The trial findBestSnapTransform settles on: the first, in the order of the
\* loops, among those of least distance and, at that distance, least rotation.
ChosenTrial(list, placement) ==
    CHOOSE kc \in SnapTrials(list, placement) :
        \A other \in SnapTrials(list, placement) :
            LET a == TrialOf(list, placement, kc)
                b == TrialOf(list, placement, other)
            IN  \/ a.distanceSq < b.distanceSq
                \/ /\ a.distanceSq = b.distanceSq
                   /\ a.rotationMagnitude < b.rotationMagnitude
                \/ /\ a.distanceSq = b.distanceSq
                   /\ a.rotationMagnitude = b.rotationMagnitude
                   /\ \/ kc[1] < other[1]
                      \/ kc[1] = other[1] /\ kc[2] <= other[2]

\* The endpoint of the selected piece and the target endpoint of a trial: the
\* loops run over endpoints, then targets, then the two desired tangents.
TrialEndpoint(endpoints, otherEndpoints, c) ==
    endpoints[((c - 1) \div (2 * Len(otherEndpoints))) + 1]
TrialTarget(endpoints, otherEndpoints, c) ==
    otherEndpoints[(((c - 1) \div 2) % Len(otherEndpoints)) + 1]

\* After a snap that chose the trial kc, in the collection list: the chosen
\* endpoint of the piece lies within CONNECTION_TOLERANCE_MM of the chosen
\* target endpoint, and the piece and the target are in one section.
SnapLanded(list, id, kc) ==
    LET endpoints == endpointGeometry(getPlacementById(list, id))
        otherEndpoints == endpointGeometry(list[kc[1]])
    IN  /\ ~HypotExceeds(TrialEndpoint(endpoints, otherEndpoints, kc[2]).x
                            - TrialTarget(endpoints, otherEndpoints, kc[2]).x,
                         TrialEndpoint(endpoints, otherEndpoints, kc[2]).y
                            - TrialTarget(endpoints, otherEndpoints, kc[2]).y,
                         CONNECTION_TOLERANCE_MM)
        /\ list[kc[1]].id \in SeqToSet(connectedSectionIds(list, id))

\* C6: snap round-trip.  Whenever the snap handler found a transform for the
\* selected piece P and applied it with pivot P (section-move off or on), an
\* endpoint of P lies within CONNECTION_TOLERANCE_MM of the chosen target
\* endpoint as the target is placed after the operation, and P and the target
\* placement are in the same section.
C6_SnapRoundTrip ==
    lastOp.name = "snapPiece" /\ C1_IdsUnique =>
        SnapLanded(placements, pre.selectedId,
                   ChosenTrial(pre.placements,
                               getPlacementById(pre.placements, pre.selectedId)))

\* A snap has just turned and moved the selected piece.
C6_Witness ==
    /\ lastOp.name = "snapPiece"
    /\ lastOp.deltaRotationDeg # 0
    /\ lastOp.deltaX # 0
    /\ lastOp.deltaY # 0

\* A snap has just moved the selected piece with section-move on.
C6_WitnessSection ==
    /\ lastOp.name = "snapPiece"
    /\ pre.sectionMode
    /\ Len(lastOp.ids) > 1

\* The orders in which the collection list can be stored.
Orders(list) ==
    { [i \in DOMAIN list |-> list[f[i]]] :
        f \in { g \in [DOMAIN list -> DOMAIN list] :
                   \A i, j \in DOMAIN list : i # j => g[i] # g[j] } }

\* The part of a transform the claim speaks of.
Motion(transform) ==
    <<transform.found, transform.deltaRotationDeg, transform.deltaX, transform.deltaY>>

\* C7: findBestSnapTransform is order-independent: for the selected placement
\* and a fixed set of other placements the transform (deltaRotationDeg,
\* deltaX, deltaY) is the same whatever the order in which the placements are
\* stored and traversed.
C7_OrderIndependent ==
    selectedId # NoId /\ HasPlacement(placements, selectedId) /\ C1_IdsUnique =>
        \A list \in Orders(placements) :
            Motion(findBestSnapTransform(list, getPlacementById(placements, selectedId)))
               = Motion(findBestSnapTransform(placements,
                                              getPlacementById(placements, selectedId)))

\* The handlers that are one call of applySectionTransform and nothing more
\* on the collection.
SectionOps == {"adjustSelected", "snapPiece"}

Listed(i) == pre.placements[i].id \in SeqToSet(lastOp.ids)

\* Where applySectionTransform must leave the position of pre.placements[i].
MovedPosition(i) ==
    LET turned == IF lastOp.deltaRotationDeg # 0
                  THEN rotatePoint(pre.placements[i].x - lastOp.pivot.x,
                                   pre.placements[i].y - lastOp.pivot.y,
                                   toRadians(lastOp.deltaRotationDeg))
                  ELSE [x |-> pre.placements[i].x - lastOp.pivot.x,
                        y |-> pre.placements[i].y - lastOp.pivot.y]
    IN  [x |-> lastOp.pivot.x + turned.x + lastOp.deltaX,
         y |-> lastOp.pivot.y + turned.y + lastOp.deltaY]

PreIdsUnique ==
    \A i, j \in DOMAIN pre.placements :
        i # j => pre.placements[i].id # pre.placements[j].id

\* Positions and frame of applySectionTransform, common to the claim as stated
\* and as amended.
SectionMoveShape ==
    /\ DOMAIN placements = DOMAIN pre.placements
    /\ \A i \in DOMAIN pre.placements :
          IF Listed(i)
          THEN /\ placements[i].x = MovedPosition(i).x
               /\ placements[i].y = MovedPosition(i).y
               /\ placements[i].id = pre.placements[i].id
               /\ placements[i].code = pre.placements[i].code
               /\ placements[i].flipped = pre.placements[i].flipped
               /\ lastOp.deltaRotationDeg = 0 =>
                     placements[i].rotation = pre.placements[i].rotation
          ELSE placements[i] = pre.placements[i]

GridExampleBefore ==
    /\ lastOp.name = "snapGrid"
    /\ Len(pre.placements) = 1
    /\ pre.placements[1].x = 103 * Mm
    /\ pre.placements[1].y = 57 * Mm
    /\ pre.placements[1].rotation = 8 * DegreeUnit

\* C9 as stated: the grid snap of a single piece at (103, 57) with rotation 8
\* degrees ends at (100, 60) with rotation 0, a delta of (-3, +3, -8 degrees).
C9_AsStated ==
    GridExampleBefore =>
        /\ placements[1].x = 100 * Mm
        /\ placements[1].y = 60 * Mm
        /\ placements[1].rotation = 0
        /\ lastOp.deltaX = -3 * Mm
        /\ lastOp.deltaY = 3 * Mm
        /\ lastOp.deltaRotationDeg = -8 * DegreeUnit

\* C9 amended: the grid snap of that piece ends at (100, 60) with rotation 15
\* degrees, the multiple of 15 nearest to 8: a delta of (-3, +3, +7 degrees).
C9_GridSnapExample ==
    GridExampleBefore =>
        /\ placements[1].x = 100 * Mm
        /\ placements[1].y = 60 * Mm
        /\ placements[1].rotation = 15 * DegreeUnit
        /\ lastOp.deltaX = -3 * Mm
        /\ lastOp.deltaY = 3 * Mm
        /\ lastOp.deltaRotationDeg = 7 * DegreeUnit

\* The example's piece has just been snapped to the grid.
C9_Witness ==
    /\ GridExampleBefore
    /\ Len(placements) = 1
    /\ ~pre.sectionMode

\* The sum of the rotations of the handlers in trail.
RECURSIVE TurnSum(_)
TurnSum(t) == IF t = << >> THEN 0 ELSE Head(t).deltaRotationDeg + TurnSum(Tail(t))

\* The board has only been turned, and its turns add up to a whole number of
\* full turns: four times rotateBoard(90), rotateBoard(90) then
\* rotateBoard(-90), and the like.
WholeTurns ==
    /\ trail # << >>
    /\ \A k \in DOMAIN trail : trail[k].name = "rotateBoard"
    /\ TurnSum(trail) % (360 * DegreeUnit) = 0

BoardBack ==
    /\ polygon = start.polygon
    /\ boardCenter = start.boardCenter
    /\ boardOrientation = start.boardOrientation
    /\ guideCircles = start.guideCircles
    /\ DOMAIN placements = DOMAIN start.placements
    /\ \A i \in DOMAIN placements :
          /\ placements[i].x = start.placements[i].x
          /\ placements[i].y = start.placements[i].y

C10_WitnessBack ==
    /\ Len(trail) = 2
    /\ trail[1].name = "rotateBoard" /\ trail[1].deltaRotationDeg = 90 * DegreeUnit
    /\ trail[2].name = "rotateBoard" /\ trail[2].deltaRotationDeg = -90 * DegreeUnit
    /\ placements # << >>

\* The index in items of the j-th element for which Test holds.
NthIndex(items, Test(_), j) ==
    CHOOSE k \in DOMAIN items :
        Test(items[k]) /\ Cardinality({i \in 1..k : Test(items[i])}) = j

IsDict(raw_item) == raw_item.isDict

\* C11: _normalise_layout_payload raises exactly in the structural cases: the
\* placements payload is no list, or it is a non-empty list every element of
\* which is dropped; an empty list and any list with a retained element load
\* without raising, whatever the values of the fields.
C11_RaisesOnlyStructural ==
    uploaded.present =>
        ( NormaliseLayoutPayload(uploaded).raised
            <=> \/ ~uploaded.isList
                \/ /\ Len(uploaded.items) > 0
                   /\ \A k \in DOMAIN uploaded.items : ~Kept(uploaded.items[k]) )

\* The placements the last upload brought into the component and the session.
LoadedNow ==
    /\ uploaded.present
    /\ lastOp.name = "render"
    /\ ~NormaliseLayoutPayload(uploaded).raised

\* C12: on load each retained placement has its malformed fields defaulted: a
\* value of x, y or rotation that is no number becomes 0.0 and a value of
\* flipped that is no boolean becomes false.
C12_FieldsDefaulted ==
    LoadedNow =>
        \A j \in DOMAIN placements :
            LET raw_item == uploaded.items[NthIndex(uploaded.items, Kept, j)]
            IN  /\ raw_item.x.t # "num" => placements[j].x = 0
                /\ raw_item.y.t # "num" => placements[j].y = 0
                /\ raw_item.rotation.t # "num" => placements[j].rotation = 0
                /\ raw_item.flipped.t # "bool" => placements[j].flipped = FALSE

\* C13: on load an element of the placements list is dropped only if it is no
\* dict: every dict element, whichever of its fields are missing or malformed,
\* is retained in its original relative order.
C13_OnlyNonDictsDropped ==
    uploaded.present /\ uploaded.isList =>
        LET loaded == NormaliseLayoutPayload(uploaded).placements
            dicts == {k \in DOMAIN uploaded.items : uploaded.items[k].isDict}
        IN  /\ Len(loaded) = Cardinality(dicts)
            /\ \A j \in DOMAIN loaded :
                  LET raw_item == uploaded.items[NthIndex(uploaded.items, IsDict, j)]
                  IN  raw_item.id.t = "str" /\ raw_item.id.s # "" =>
                         loaded[j].id = raw_item.id.s

HasCode(raw_item) ==
    raw_item.isDict /\ raw_item.code.t = "str" /\ raw_item.code.s # ""

\* C13 (as the loader has it): an element is dropped exactly when it is no
\* dict or its code is no non-empty string; the other elements are retained
\* in their original relative order, with their code, and with their id
\* when it is a non-empty string.
C13_DroppedWithoutCode ==
    uploaded.present /\ ~NormaliseLayoutPayload(uploaded).raised =>
        LET loaded == NormaliseLayoutPayload(uploaded).placements
            coded == {k \in DOMAIN uploaded.items : HasCode(uploaded.items[k])}
        IN  /\ Len(loaded) = Cardinality(coded)
            /\ LoadedNow => Len(placements) = Cardinality(coded)
            /\ \A j \in DOMAIN loaded :
                  LET k == NthIndex(uploaded.items, HasCode, j)
                      raw_item == uploaded.items[k]
                  IN  /\ loaded[j].code = raw_item.code.s
                      /\ loaded[j].id =
                            IF raw_item.id.t = "str" /\ raw_item.id.s # ""
                            THEN raw_item.id.s ELSE PlacementIdName(k - 1)
                      /\ LoadedNow => /\ placements[j].code = loaded[j].code
                                      /\ placements[j].id = loaded[j].id

\* A layout is loaded from which a dict without code and a non-dict were
\* dropped while elements before and after them were retained.
C13_Witness ==
    /\ LoadedNow
    /\ \E k \in DOMAIN uploaded.items :
          uploaded.items[k].isDict /\ ~HasCode(uploaded.items[k])
    /\ \E k \in DOMAIN uploaded.items : ~uploaded.items[k].isDict
    /\ Len(placements) >= 3

\* Catalogue entries of curves with a radius or an angle that is zero,
\* missing or negative, as track_payload (233-244) builds them: length 0 and
\* displayLength the arc length, which is 0 without radius or angle.
DegenerateCurves ==
    { [code |-> "D000", kind |-> "curve", length |-> 0,
       angle |-> angle * DegreeUnit, radius |-> radius * Mm,
       displayLength |-> 0] :
         <<radius, angle>> \in { <<0, 45>>, <<371, 0>>, <<0, 0>>,
                                 <<-371, 45>>, <<371, -45>> } }

\* C14: a placement whose catalogue entry is a curve with radius <= 0 or
\* angle <= 0, or with either missing, has no endpoints: endpointGeometry
\* returns the empty list.
C14_DegenerateCurveNoEndpoints ==
    \A i \in DOMAIN placements : \A piece \in DegenerateCurves :
        PieceEndpoints(placements[i], piece) = << >>

\* The placement moved to the origin and turned to rotation 0.
AtOrigin(placement) == [placement EXCEPT !.x = 0, !.y = 0, !.rotation = 0]

\* Endpoint positions are held to a tenth of a millimetre; turning a point
\* and turning it back rounds twice, which moves it by one step at most.
RoundingSlack == Mm \div 10

\* The endpoint carried back: translated by -(x, y) of the placement and
\* turned by minus its rotation.
CarriedBack(placement, endpoint) ==
    LET back == -toRadians(placement.rotation)
        position == rotatePoint(endpoint.x - placement.x,
                                endpoint.y - placement.y, back)
    IN  [x |-> position.x, y |-> position.y,
         tangent |-> normalizeRadians(endpoint.tangent + back),
         radial |-> normalizeRadians(endpoint.radial + back)]

Equivariant(placement) ==
    LET turned == endpointGeometry(placement)
        plain == endpointGeometry(AtOrigin(placement))
    IN  /\ Len(turned) = 2 /\ Len(plain) = 2
        /\ \A i \in 1..2 :
              LET carried == CarriedBack(placement, turned[i])
              IN  /\ Abs(carried.x - plain[i].x) <= RoundingSlack
                  /\ Abs(carried.y - plain[i].y) <= RoundingSlack
                  /\ carried.tangent = plain[i].tangent
                  /\ carried.radial = plain[i].radial

\* C15: rotation/translation equivariance of endpointGeometry: for every
\* placement P with a code of the catalogue, the two endpoints of P translated
\* by -(P.x, P.y) and turned (positions, tangents and radials) by -P.rotation
\* are, index by index, the endpoints of the same piece with the same flipped
\* at (0, 0) with rotation 0.
C15_Equivariance ==
    \A i \in DOMAIN placements :
        placements[i].code \in LibraryCodes => Equivariant(placements[i])

\* A straight and a flipped curve, both away from the origin and turned by
\* angles that are no multiple of a quarter turn, are on the board.
C15_Witness ==
    /\ \E i \in DOMAIN placements :
          /\ IsStraight(placements[i])
          /\ placements[i].x # 0 /\ placements[i].y # 0
          /\ JsMod(placements[i].rotation, 90 * DegreeUnit) # 0
    /\ \E i \in DOMAIN placements :
          /\ placements[i].code \in LibraryCodes /\ ~IsStraight(placements[i])
          /\ placements[i].x # 0 /\ placements[i].y # 0
          /\ JsMod(placements[i].rotation, 90 * DegreeUnit) # 0

\* The last handlers of the behaviour, oldest first.
LastOps(n) ==
    IF Len(trail) < n THEN << >>
    ELSE [k \in 1..n |-> trail[Len(trail) - n + k].name]

\* C16: flip is an involution with a narrow frame: the flip command toggles
\* flipped of the selected placement and nothing else (x, y, rotation, the
\* other placements, the selection and the section-move switch stay, also
\* with section-move on), and two flips in a row leave every placement with
\* the endpoint geometry it had before them.
C16_FlipInvolution ==
    /\ lastOp.name = "flipPiece" =>
          LET idx == IndexOfId(pre.placements, pre.selectedId)
          IN  /\ placements = [pre.placements EXCEPT
                                  ![idx].flipped = ~pre.placements[idx].flipped]
              /\ selectedId = pre.selectedId
              /\ sectionMode = pre.sectionMode
    /\ trail # << >> /\ LastOps(Len(trail)) = <<"flipPiece", "flipPiece">> =>
          /\ DOMAIN placements = DOMAIN start.placements
          /\ \A i \in DOMAIN placements :
                /\ endpointGeometry(placements[i])
                      = endpointGeometry(start.placements[i])
                /\ placements[i] = start.placements[i]

\* A curve has been flipped twice; after the first flip its endpoints were
\* not where they are now.
C16_Witness ==
    /\ LastOps(Len(trail)) = <<"flipPiece", "flipPiece">>
    /\ \E i \in DOMAIN placements :
          /\ placements[i].id = selectedId
          /\ placements[i].code \in LibraryCodes
          /\ ~IsStraight(placements[i])
          /\ endpointGeometry(pre.placements[i]) # endpointGeometry(placements[i])

\* A member of a section of several pieces has been flipped with section-move
\* on.
C16_WitnessSection ==
    /\ lastOp.name = "flipPiece"
    /\ sectionMode
    /\ Len(connectedSectionIds(pre.placements, selectedId)) >= 2

\* The step is the handler called name.
Handles(name) == ops' = ops + 1 /\ lastOp'.name = name

\* C17: no rollback on cancel: when a drag of a piece ends by pointer-cancel or
\* pointer-up, every placement keeps the position the last pointer-move gave
\* it, the drag flag is cleared, and the start-of-drag snapshot and the active
\* id set are discarded.
C17_NoRollback ==
    [][ dragging /\ (Handles("pointercancel") \/ Handles("pointerup")) =>
           /\ placements' = placements
           /\ ~dragging'
           /\ sectionInitialPositions' = {}
           /\ activeSectionIds' = NoSet ]_vars

\* A piece was grabbed, moved and the gesture cancelled: the piece is away
\* from where it started and nothing of the drag is left.
C17_Witness ==
    /\ LastOps(Len(trail)) = <<"pointerdown", "pointermove", "pointercancel">>
    /\ ~dragging
    /\ sectionInitialPositions = {}
    /\ activeSectionIds = NoSet
    /\ DOMAIN placements = DOMAIN start.placements
    /\ \E i \in DOMAIN placements :
          /\ placements[i].id = selectedId
          /\ placements[i].x # start.placements[i].x
          /\ placements[i].y # start.placements[i].y

\* The ids a transform of the placement called id is to reach.
SectionOrSelf(list, mode, id) ==
    IF mode THEN SeqToSet(connectedSectionIds(list, id)) ELSE {id}

TransformOps == {"adjustSelected", "snapGrid", "snapPiece"}

\* After a rotate, nudge, snap-to-piece or snap-to-grid button: the placements
\* outside the target set of the handler's start are as they were, and a
\* rotation or nudge has changed every member.
ButtonsKeepOthers ==
    lastOp.name \in TransformOps =>
        LET target == SectionOrSelf(pre.placements, pre.sectionMode, pre.selectedId)
        IN  /\ DOMAIN placements = DOMAIN pre.placements
            /\ \A i \in DOMAIN placements :
                  pre.placements[i].id \notin target =>
                     placements[i] = pre.placements[i]
            /\ lastOp.name = "adjustSelected" =>
                  \A id \in target :
                     LET i == IndexOfId(pre.placements, id)
                     IN  placements[i] # pre.placements[i]

\* After the pointer went down on a piece: the active id set is the target
\* set of that piece, and the snapshot holds the position of every member.
DownCapturesTargets ==
    lastOp.name = "pointerdown" /\ dragging =>
        LET target == SectionOrSelf(placements, sectionMode, selectedId)
        IN  /\ activeSectionIds = [isNull |-> FALSE, ids |-> target]
            /\ sectionInitialPositions =
                  { [id |-> id, x |-> getPlacementById(placements, id).x,
                     y |-> getPlacementById(placements, id).y] : id \in target }

\* A pointer-move of a drag shifts the members of the captured set that the
\* snapshot holds by one common vector from their captured positions and
\* changes nothing else; while the drag lasts the captured set is kept or
\* discarded, never computed anew.
DragKeepsOthers ==
    /\ dragging /\ Handles("pointermove") =>
          LET ids == IF activeSectionIds.isNull THEN {selectedId}
                     ELSE activeSectionIds.ids
          IN  /\ DOMAIN placements' = DOMAIN placements
              /\ \A i \in DOMAIN placements :
                    IF /\ placements[i].id \in ids
                       /\ i = IndexOfId(placements, placements[i].id)
                       /\ HasStart(placements[i].id)
                    THEN placements'[i] =
                           [placements[i] EXCEPT
                               !.x = StartOf(placements[i].id).x + lastOp'.deltaX,
                               !.y = StartOf(placements[i].id).y + lastOp'.deltaY]
                    ELSE placements'[i] = placements[i]
    /\ dragging /\ dragging' =>
          \/ UNCHANGED snapshotVars
          \/ activeSectionIds' = NoSet /\ sectionInitialPositions' = {}

\* C18: the section-move flag selects the target set of every transform (drag,
\* rotate, nudge, snap-to-piece, snap-to-grid): with the flag off only the
\* selected placement changes, with the flag on exactly the members of
\* connectedSectionIds(selected), computed from the placements as they are
\* when the operation, or the pointer-down of the drag, starts; every placement
\* outside the target set keeps x, y, rotation and flipped.
C18_TargetSet ==
    /\ [](ButtonsKeepOthers /\ DownCapturesTargets)
    /\ [][DragKeepsOthers]_vars

\* A section of several pieces has been dragged with section-move on: its
\* members have moved, a placement outside it has not.
C18_Witness ==
    /\ LastOps(Len(trail)) = <<"toggleSectionMode", "pointerdown", "pointermove">>
    /\ dragging
    /\ ~activeSectionIds.isNull
    /\ Cardinality(activeSectionIds.ids) >= 2
    /\ \A i \in DOMAIN placements :
          placements[i].id \in activeSectionIds.ids =>
             placements[i].x # start.placements[i].x
    /\ \E i \in DOMAIN placements :
          /\ placements[i].id \notin activeSectionIds.ids
          /\ placements[i] = start.placements[i]

\* A rotation with section-move off has turned the selected member of a
\* section of several pieces and left the other members alone.
C18_WitnessOff ==
    /\ lastOp.name = "adjustSelected"
    /\ ~pre.sectionMode
    /\ Len(connectedSectionIds(pre.placements, pre.selectedId)) >= 2
    /\ \E i \in DOMAIN placements : placements[i] # pre.placements[i]

\* A snap to the grid with section-move on has moved a section of several
\* pieces.
C18_WitnessGrid ==
    /\ lastOp.name = "snapGrid"
    /\ pre.sectionMode
    /\ Len(lastOp.ids) >= 2
    /\ \E i \in DOMAIN placements : placements[i] # pre.placements[i]

\* Every endpoint of every other placement of list is farther than
\* SNAP_DISTANCE_MM from every endpoint of placement.
AllFar(list, placement) ==
    \A k \in DOMAIN list :
        list[k].id # placement.id =>
            \A i \in DOMAIN endpointGeometry(placement) :
                \A j \in DOMAIN endpointGeometry(list[k]) :
                    LET dx == endpointGeometry(placement)[i].x
                                 - endpointGeometry(list[k])[j].x
                        dy == endpointGeometry(placement)[i].y
                                 - endpointGeometry(list[k])[j].y
                    IN  dx * dx + dy * dy > SNAP_DISTANCE_MM * SNAP_DISTANCE_MM

\* C19: findBestSnapTransform returns none when no candidate passes the chain
\* of the snap distance and the validation, in particular whenever every
\* endpoint of every other placement is farther than SNAP_DISTANCE_MM from
\* every endpoint of the selected placement; the snap-to-piece command then
\* changes no placement and emits nothing: a snap event happens only with a
\* transform.
C19_NoSnapWithoutCandidate ==
    /\ selectedId # NoId /\ HasPlacement(placements, selectedId) =>
          LET placement == getPlacementById(placements, selectedId)
          IN  /\ SnapTrials(placements, placement) = {} =>
                    ~findBestSnapTransform(placements, placement).found
              /\ AllFar(placements, placement) =>
                    ~findBestSnapTransform(placements, placement).found
    /\ lastOp.name = "snapPiece" =>
          /\ ~AllFar(pre.placements,
                     getPlacementById(pre.placements, pre.selectedId))
          /\ SnapTrials(pre.placements,
                        getPlacementById(pre.placements, pre.selectedId)) # {}

\* The selected piece and another piece both have endpoints, and all of the
\* other's are beyond the snap distance.
C19_Witness ==
    /\ selectedId # NoId /\ HasPlacement(placements, selectedId)
    /\ endpointGeometry(getPlacementById(placements, selectedId)) # << >>
    /\ \E k \in DOMAIN placements :
          /\ placements[k].id # selectedId
          /\ endpointGeometry(placements[k]) # << >>
    /\ AllFar(placements, getPlacementById(placements, selectedId))
    /\ ~findBestSnapTransform(placements,
                              getPlacementById(placements, selectedId)).found

\* The loops of findBestSnapTransform have compared every candidate.
Solved == compared = Len(validCandidates) /\ compared > 0

LeastDistance ==
    SetMin({validCandidates[k].distance : k \in DOMAIN validCandidates})

\* C20: the transform returned by findBestSnapTransform belongs to a valid
\* candidate of minimal distance among all valid candidates (minimal up to
\* 1e-6), and among the valid candidates whose distance is within 1e-6 of that
\* minimum none has a |deltaRotationDeg| smaller than its by 1e-6 or more.
C20_BestIsNearestThenStraightest ==
    Solved =>
        /\ \E k \in DOMAIN validCandidates : validCandidates[k] = bestSoFar
        /\ bestSoFar.distance - LeastDistance < SNAP_EPSILON
        /\ \A k \in DOMAIN validCandidates :
              validCandidates[k].distance - LeastDistance < SNAP_EPSILON =>
                 bestSoFar.rotationMagnitude - validCandidates[k].rotationMagnitude
                    < SNAP_EPSILON

\* The difference b - a of two angles, brought into (-180, 180] degrees.
TurnBetween(a, b) ==
    LET d == (b - a) % (360 * DegreeUnit)
    IN  IF d > 180 * DegreeUnit THEN d - 360 * DegreeUnit ELSE d

\* After a snap to the grid: the pivot is on the grid point and on the angle
\* step nearest to where it was, and the other targets have been turned about
\* the pivot's old position by the pivot's turn and shifted by its shift.
GridSnapLands ==
    lastOp.name = "snapGrid" =>
        LET idx == IndexOfId(pre.placements, pre.selectedId)
            old == pre.placements[idx]
            now == placements[idx]
        IN  /\ DOMAIN placements = DOMAIN pre.placements
            /\ now.x % (10 * Mm) = 0
            /\ 2 * Abs(now.x - old.x) <= 10 * Mm
            /\ now.y % (10 * Mm) = 0
            /\ 2 * Abs(now.y - old.y) <= 10 * Mm
            /\ now.rotation \in 0..(360 * DegreeUnit - 1)
            /\ now.rotation % (15 * DegreeUnit) = 0
            /\ 2 * Abs(TurnBetween(old.rotation, now.rotation)) <= 15 * DegreeUnit
            /\ now.id = old.id /\ now.code = old.code /\ now.flipped = old.flipped
            /\ lastOp.pivot = [x |-> old.x, y |-> old.y]
            /\ lastOp.deltaX = now.x - old.x
            /\ lastOp.deltaY = now.y - old.y
            /\ lastOp.deltaRotationDeg = TurnBetween(old.rotation, now.rotation)
            /\ SeqToSet(lastOp.ids)
                  = SectionOrSelf(pre.placements, pre.sectionMode, pre.selectedId)
            /\ \A i \in DOMAIN pre.placements \ {idx} :
                  IF Listed(i)
                  THEN /\ placements[i].x = MovedPosition(i).x
                       /\ placements[i].y = MovedPosition(i).y
                       /\ TurnBetween(pre.placements[i].rotation,
                                      placements[i].rotation)
                             = lastOp.deltaRotationDeg
                       /\ placements[i].id = pre.placements[i].id
                       /\ placements[i].code = pre.placements[i].code
                       /\ placements[i].flipped = pre.placements[i].flipped
                  ELSE placements[i] = pre.placements[i]

\* C21: after snap-to-grid the selected (pivot) placement has x and y at the
\* nearest multiples of 10 mm of its previous x and y, and its rotation at the
\* nearest multiple of 15 degrees of its previous rotation, reduced into
\* [0, 360); with section-move on the other section members receive the same
\* rotation about the pivot's old position followed by the same translation;
\* a second snap-to-grid changes nothing.
C21_GridSnap ==
    /\ GridSnapLands
    /\ LastOps(2) = <<"snapGrid", "snapGrid">> => placements = pre.placements

\* A section of several pieces has been snapped to the grid twice in a row
\* with section-move on; the first snap had turned and shifted it.
C21_Witness ==
    /\ Len(trail) = 3
    /\ LastOps(2) = <<"snapGrid", "snapGrid">>
    /\ pre.sectionMode
    /\ Len(lastOp.ids) >= 2
    /\ \A i \in DOMAIN placements :
          Listed(i) => /\ placements[i].rotation # start.placements[i].rotation
                       /\ placements[i].x # start.placements[i].x

\* A snap to the grid has brought a rotation from below 0 into [0, 360).
C21_WitnessWrap ==
    /\ lastOp.name = "snapGrid"
    /\ \E i \in DOMAIN placements :
          /\ pre.placements[i].id = pre.selectedId
          /\ pre.placements[i].rotation < 0
          /\ placements[i].rotation > 0

\* C22: the board orientation is kept modulo 360 like placement rotations:
\* after any sequence of rotateBoard(+90) and rotateBoard(-90) starting from an
\* orientation in [0, 360), the stored and emitted board orientation is a value
\* in [0, 360) equal to (previous + delta) mod 360.
C22_OrientationModulo ==
    /\ start.boardOrientation \in 0..(360 * DegreeUnit - 1)
    /\ \A k \in DOMAIN trail : trail[k].name = "rotateBoard"
    /\ lastOp.name = "rotateBoard"
    =>
    /\ boardOrientation \in 0..(360 * DegreeUnit - 1)
    /\ boardOrientation
          = (pre.boardOrientation + lastOp.deltaRotationDeg) % (360 * DegreeUnit)
    /\ emitted.present
    /\ emitted.orientation = boardOrientation

\* The point (x, y) after a quarter turn by d (+90 or -90 degrees) about
\* centre.
QuarterTurn(x, y, centre, d) ==
    IF d = 90 * DegreeUnit
    THEN [x |-> centre.x - (y - centre.y), y |-> centre.y + (x - centre.x)]
    ELSE [x |-> centre.x + (y - centre.y), y |-> centre.y - (x - centre.x)]

\* C23: rotateBoard(d) is one rigid motion of the whole scene: every polygon
\* vertex, every placement (resolvable or inert) and every guide circle is
\* rotated by d about the same bounding-box centre of the board as it was
\* before the call, and every placement's rotation grows by d; the connected
\* relation between every pair of placements, and so every section, is the
\* same before and after the call.
C23_RigidScene ==
    lastOp.name = "rotateBoard" =>
        LET centre == BoardCenterOf(pre.polygon)
            d == lastOp.deltaRotationDeg
        IN  /\ pre.boardCenter = centre
            /\ DOMAIN polygon = DOMAIN pre.polygon
            /\ \A i \in DOMAIN polygon :
                  LET to == QuarterTurn(pre.polygon[i][1], pre.polygon[i][2], centre, d)
                  IN  polygon[i] = <<to.x, to.y>>
            /\ DOMAIN placements = DOMAIN pre.placements
            /\ \A i \in DOMAIN placements :
                  LET old == pre.placements[i]
                      to == QuarterTurn(old.x, old.y, centre, d)
                  IN  /\ placements[i].x = to.x
                      /\ placements[i].y = to.y
                      /\ (placements[i].rotation - (old.rotation + d))
                            % (360 * DegreeUnit) = 0
                      /\ placements[i].id = old.id
                      /\ placements[i].code = old.code
                      /\ placements[i].flipped = old.flipped
            /\ DOMAIN guideCircles = DOMAIN pre.guideCircles
            /\ \A i \in DOMAIN guideCircles :
                  LET old == pre.guideCircles[i]
                      to == QuarterTurn(old.x, old.y, centre, d)
                  IN  guideCircles[i] = [old EXCEPT !.x = to.x, !.y = to.y]
            /\ \A i, j \in DOMAIN placements :
                  Linked(placements, i, j) <=> Linked(pre.placements, i, j)
            /\ \A i \in DOMAIN placements :
                  connectedSectionIds(placements, placements[i].id)
                     = connectedSectionIds(pre.placements, placements[i].id)

\* The board has been turned with a section of several pieces, an inert
\* placement and a guide circle on it, all away from the centre of the turn.
C23_Witness ==
    /\ lastOp.name = "rotateBoard"
    /\ guideCircles # << >>
    /\ guideCircles[1].x # pre.guideCircles[1].x
    /\ \E i \in DOMAIN placements :
          /\ Unknown(placements[i])
          /\ placements[i].x # pre.placements[i].x
    /\ \E i, j \in DOMAIN placements : Linked(placements, i, j)
    /\ \E i, j \in DOMAIN placements : i # j /\ ~Linked(placements, i, j)

\* The board has been turned under two curves joined on one circle.
C23_WitnessCurves ==
    /\ lastOp.name = "rotateBoard"
    /\ \E i, j \in DOMAIN placements :
          /\ ~IsStraight(placements[i]) /\ ~Unknown(placements[i])
          /\ ~IsStraight(placements[j]) /\ ~Unknown(placements[j])
          /\ Linked(placements, i, j)

\* C24: the host round-trip loses no update: when the script reruns after the
\* component has emitted a state, the placements it hands back as render
\* arguments are those of the component's most recent emission, so
\* applyRenderArgs leaves the component with the placements it emitted last,
\* never with older ones.
C24_NoLostUpdate ==
    lastOp.name = "render" /\ emitted.present /\ ~uploaded.present =>
        /\ pre.args = emitted.placements
        /\ placements = PlacementsFromItems(emitted.placements, 1)

\* The ids a pointer-move of a piece drag goes through (1497):
\* activeSectionIds if set, else the selected id alone.
ActiveIds ==
    IF activeSectionIds.isNull THEN {selectedId} ELSE activeSectionIds.ids

\* While a piece is dragged the snapshot holds a start for every active id.
SnapshotCoversActive == dragging => \A id \in ActiveIds : HasStart(id)

\* A pointer-move of a piece drag puts every active piece at its start plus
\* the pointer's delta and changes no rotation.
DragPlacesActive ==
    dragging /\ Handles("pointermove") =>
        /\ DOMAIN placements' = DOMAIN placements
        /\ \A i \in DOMAIN placements :
              /\ placements'[i].rotation = placements[i].rotation
              /\ placements[i].id \in ActiveIds
                    /\ i = IndexOfId(placements, placements[i].id) =>
                       /\ HasStart(placements[i].id)
                       /\ placements'[i].x
                             = StartOf(placements[i].id).x + lastOp'.deltaX
                       /\ placements'[i].y
                             = StartOf(placements[i].id).y + lastOp'.deltaY

\* C25: while a piece drag is in progress (dragging is true) the start-of-drag
\* snapshot holds a start position for every id of the active set, so every
\* pointer-move places each active piece at its start position plus one common
\* pointer delta and leaves rotations unchanged, whatever section-move toggles
\* and render events come between pointer-down and pointer-up.
C25_DragSnapshot == []SnapshotCoversActive /\ [][DragPlacesActive]_vars

\* The pairs of endpoints of two different straights of list.
StraightEnds(list) ==
    UNION { SeqToSet(endpointGeometry(list[ij[1]]))
               \X SeqToSet(endpointGeometry(list[ij[2]])) :
            ij \in StraightPairs(list) }

\* C26: the radial-alignment gate only joins curve ends: two endpoints that
\* both belong to straight pieces are connected only if their tangents are
\* anti-parallel within ANGLE_TOLERANCE_RAD; two straights lying exactly on
\* top of each other with the same rotation, as two pieces freshly added at
\* the board centre do, are not connected and do not form one section.
C26_StraightsJoinHeadOn ==
    /\ \A ef \in StraightEnds(placements) :
          endpointsAreConnected(ef[1], ef[2]) =>
             Abs(Abs(normalizeRadians(ef[1].tangent - ef[2].tangent)) - Pi)
                < ANGLE_TOLERANCE_RAD
    /\ \A ij \in StraightPairs(placements) :
          LET a == placements[ij[1]]
              b == placements[ij[2]]
          IN  a.x = b.x /\ a.y = b.y /\ a.rotation = b.rotation /\ a.id # b.id =>
                 /\ ~Linked(placements, ij[1], ij[2])
                 /\ b.id \notin SeqToSet(connectedSectionIds(placements, a.id))

\* C27: in every reachable state selectedId is null or the id of a placement
\* of the collection, after any sequence of add, remove, pointer-down, circle
\* selection and render events.
C27_SelectionInCollection ==
    selectedId = NoId \/ \E i \in DOMAIN placements : placements[i].id = selectedId

\* The selected placement has been removed from a collection of several, the
\* selection has gone to the last of those that stay, and a rerun of the
\* script has then handed another collection to the component.
C27_Witness ==
    /\ LastOps(2) = <<"deletePiece", "render">>
    /\ selectedId # NoId
    /\ Len(placements) # Len(pre.placements)
    /\ ~\E i \in DOMAIN pre.placements : pre.placements[i].id = start.selectedId

\* The pointer has gone down on a placement that was not the selected one.
C27_WitnessPointer ==
    /\ lastOp.name = "pointerdown"
    /\ selectedId # NoId
    /\ selectedId # pre.selectedId

\* The last placement has been removed: nothing is selected.
C27_WitnessEmpty ==
    /\ lastOp.name = "deletePiece"
    /\ placements = << >>
    /\ pre.placements # << >>
    /\ selectedId = NoId

\* The set of ids connectedSectionIds returns for the placement at index i.
SectionOf(list, i) == SeqToSet(connectedSectionIds(list, list[i].id))

\* The sections, one per placement of the collection, are equal or disjoint:
\* a placement is in the section of another exactly when the other is in its
\* own, and then the two sections are the same set of ids.
SectionsAgree(sections) ==
    \A i, j \in DOMAIN sections :
        /\ placements[j].id \in sections[i] <=> placements[i].id \in sections[j]
        /\ placements[j].id \in sections[i] => sections[i] = sections[j]

\* C28: connectivity is symmetric, so sections partition the placements:
\* endpointsAreConnected(a, b) equals endpointsAreConnected(b, a) for all
\* endpoints, and for any two placements A and B (ids identify placements:
\* the collection holds no id twice), B is in connectedSectionIds(A) if and
\* only if A is in connectedSectionIds(B), and then the two id sets are equal.
C28_SectionsPartition ==
    C1_IdsUnique =>
        /\ \A i, j \in DOMAIN placements :
              \A e \in SeqToSet(endpointGeometry(placements[i])) :
                 \A f \in SeqToSet(endpointGeometry(placements[j])) :
                    endpointsAreConnected(e, f) <=> endpointsAreConnected(f, e)
        /\ SectionsAgree([i \in DOMAIN placements |-> SectionOf(placements, i)])

\* A section of several pieces has just been moved as one, the collection
\* holds a placement outside it, and no id twice.
C28_Witness ==
    /\ C1_IdsUnique
    /\ lastOp.name = "adjustSelected"
    /\ pre.sectionMode
    /\ Len(lastOp.ids) >= 2
    /\ \E i, j \in DOMAIN placements :
          /\ i # j
          /\ placements[i].id = selectedId
          /\ placements[j].id \in SectionOf(placements, i)
    /\ \E i, j \in DOMAIN placements :
          /\ placements[i].id = selectedId
          /\ placements[j].id \notin SectionOf(placements, i)

\* The pairs of placements with ids in ids that were joined before the last
\* handler are joined after it.
JoinsKept(ids) ==
    \A i, j \in DOMAIN pre.placements :
        /\ pre.placements[i].id \in ids
        /\ pre.placements[j].id \in ids
        /\ Linked(pre.placements, i, j)
        => Linked(placements, i, j)

\* A rotation, nudge or snap-to-piece with section-move on keeps the joins of
\* the section it was applied to and the section's members.
ButtonsKeepSection ==
    lastOp.name \in SectionOps /\ pre.sectionMode =>
        LET before == SeqToSet(connectedSectionIds(pre.placements, pre.selectedId))
        IN  /\ SeqToSet(lastOp.ids) = before
            /\ JoinsKept(before)
            /\ before \subseteq SeqToSet(connectedSectionIds(placements, selectedId))

\* The pointer went down on a piece and has only moved since.
DragUnderWay ==
    /\ dragging
    /\ lastOp.name = "pointermove"
    /\ \E k \in DOMAIN trail :
          /\ trail[k].name = "pointerdown"
          /\ \A m \in (k + 1)..Len(trail) : trail[m].name = "pointermove"

\* A pointer-move of a drag with section-move on keeps the joins of the
\* section the pointer-down captured and the section's members.
DragKeepsSection ==
    DragUnderWay /\ sectionMode =>
        /\ ~activeSectionIds.isNull
        /\ JoinsKept(activeSectionIds.ids)
        /\ activeSectionIds.ids
              \subseteq SeqToSet(connectedSectionIds(placements, selectedId))

\* C29: section transforms are rigid on the section: with section-move on,
\* after a rotation by +15 or -15 degrees, a nudge, a snap-to-piece or a drag
\* applied to the section of the selected placement, every pair of members
\* that was connected before the operation is connected after it, and the
\* section of the selected placement afterwards contains every member it had
\* before.
C29_SectionStaysJoined == ButtonsKeepSection /\ DragKeepsSection

\* A section of several pieces has been turned twice by 15 degrees about its
\* selected member.
C29_Witness ==
    /\ LastOps(3) = <<"toggleSectionMode", "adjustSelected", "adjustSelected">>
    /\ trail[2].deltaRotationDeg # 0
    /\ trail[3].deltaRotationDeg = trail[2].deltaRotationDeg
    /\ Len(lastOp.ids) >= 2
    /\ \E i, j \in DOMAIN placements : Linked(placements, i, j)

\* A section of several pieces has been dragged.
C29_WitnessDrag ==
    /\ DragUnderWay
    /\ sectionMode
    /\ Cardinality(activeSectionIds.ids) >= 2
    /\ \E i \in DOMAIN placements : placements[i].x # pre.placements[i].x

\* A section of several pieces has been snapped to another piece.
C29_WitnessSnap ==
    /\ lastOp.name = "snapPiece"
    /\ pre.sectionMode
    /\ Len(lastOp.ids) >= 2
    /\ placements # pre.placements

\* The call of connectedSectionIds has returned.
Returned == pending = << >>

\* No id has been visited twice, and what the loop returns is what
\* connectedSectionIds lists for the origin.
VisitedOnce ==
    /\ Len(seen) = Cardinality(SeqToSet(seen))
    /\ Returned =>
          seen = connectedSectionIds(placements,
                                     IF seen = << >> THEN NoId ELSE seen[1])

\* C30: connectedSectionIds terminates for every placement collection and
\* every origin (collections with inert placements, an origin id that matches
\* no placement and closed track loops included), processes each id at most
\* once, and returns a list without repeated ids.
C30_SectionWalkEnds == []VisitedOnce /\ <>Returned

\* The loop has gone round a closed loop of eight curves and has returned all
\* eight ids, having found an id in the queue that it had visited already.
C30_Witness ==
    /\ Returned
    /\ Len(seen) = 8
    /\ Len(placements) = 8

\* The loop has returned for an origin that no placement carries.
C30_WitnessGhost ==
    /\ Returned
    /\ seen = <<GhostId>>
    /\ placements # << >>

\* The loop has returned for an inert origin lying on a resolvable piece.
C30_WitnessInert ==
    /\ Returned
    /\ Len(seen) = 1
    /\ \E i \in DOMAIN placements :
          placements[i].id = seen[1] /\ Unknown(placements[i])

=============================================================================
